---------------------------- MODULE Spec2Model ----------------------------
(***************************************************************************)
(* A model of the pmpi core: the three keyed tables (blocks, operations,   *)
(* identifiers), the in-memory BlockChain tree with its head, and the      *)
(* in-memory Operation objects whose containing_blocks tuples are written  *)
(* to the operations table by Operation.put.                               *)
(*                                                                         *)
(* Ids are content hashes in the program; here every block and operation   *)
(* of a fixed universe is named by a string, and its (immutable) content   *)
(* is given by BlockTable and OperationTable.  The signatures of the       *)
(* objects of the universe are valid; signing, the wire form and the id of *)
(* one Operation object are modelled apart, with the variable signed.      *)
(***************************************************************************)
EXTENDS Integers, Sequences, FiniteSets, TLC

\* The longest batch one update_blocks call is given.
MaxBatch == 2

\* BlockChain.ROOT, the id of the all-zero sentinel revision.
ROOT == "root"

\* Python's None (no previous operation, no identifier entry, no error).
NONE == "none"

\* Block.verify: the least number of operations a block may hold.
MIN_OPERATIONS == 2

\* Block.verify: the greatest operations_limit a block may state.
MAX_OPERATIONS == 10

UUIDs == {"U1", "U2"}

(***************************************************************************)
(* The operations of the universe.  o3 and o5 both follow o1: the chain of *)
(* U1 forks, and each branch of the block tree carries one of its sides.   *)
(*   U1: o1 <- o3                    U2: o2 <- o4 <- o6                    *)
(*       o1 <- o5 <- o7 <- o12                                             *)
(*                   o7 <- o13                                             *)
(* Every operation is owned by K1.  o9 follows o1 but is signed by K2;     *)
(* o10 follows o1 under the uuid U2; o11 mints U1 a second time.           *)
(***************************************************************************)
OperationTable ==
  [ o1  |-> [previous_operation_rev |-> NONE, uuid |-> "U1", signer |-> "K1", owners |-> <<"K1">>],
    o2  |-> [previous_operation_rev |-> NONE, uuid |-> "U2", signer |-> "K1", owners |-> <<"K1">>],
    o3  |-> [previous_operation_rev |-> "o1", uuid |-> "U1", signer |-> "K1", owners |-> <<"K1">>],
    o4  |-> [previous_operation_rev |-> "o2", uuid |-> "U2", signer |-> "K1", owners |-> <<"K1">>],
    o5  |-> [previous_operation_rev |-> "o1", uuid |-> "U1", signer |-> "K1", owners |-> <<"K1">>],
    o6  |-> [previous_operation_rev |-> "o4", uuid |-> "U2", signer |-> "K1", owners |-> <<"K1">>],
    o7  |-> [previous_operation_rev |-> "o5", uuid |-> "U1", signer |-> "K1", owners |-> <<"K1">>],
    o9  |-> [previous_operation_rev |-> "o1", uuid |-> "U1", signer |-> "K2", owners |-> <<"K1">>],
    o10 |-> [previous_operation_rev |-> "o1", uuid |-> "U2", signer |-> "K1", owners |-> <<"K1">>],
    o11 |-> [previous_operation_rev |-> NONE, uuid |-> "U1", signer |-> "K1", owners |-> <<"K1">>],
    o12 |-> [previous_operation_rev |-> "o7", uuid |-> "U1", signer |-> "K1", owners |-> <<"K1">>],
    o13 |-> [previous_operation_rev |-> "o7", uuid |-> "U1", signer |-> "K1", owners |-> <<"K1">>] ]

Ops == DOMAIN OperationTable

(***************************************************************************)
(* The blocks of the universe.                                             *)
(*                                                                         *)
(*   root -> G -> A1 -> M             G2 is a second genesis candidate;    *)
(*            \-> B1 -> B2 -> Y       o4 is in A1 and in its sibling B1,   *)
(*            \-> X1, X2              o6 in B2 and in M.                   *)
(*                                                                         *)
(* G, G2, A1, B1 and B2 are well formed.  X1 holds o9 and X2 holds o10,    *)
(* M holds the second minting o11, and the two operations of Y both follow *)
(* o7, an operation of another block.                                      *)
(*                                                                         *)
(* W1 and W2 are A1 with a checksum that is not the hash of the block, or  *)
(* misses the target.  L1 holds fewer than MIN_OPERATIONS operations, L2   *)
(* more than its operations_limit, and the operations_limit of L3 is above *)
(* MAX_OPERATIONS; the others keep the operations_limit of Block.__init__. *)
(* F follows A1, which holds o3, and holds o5, the other successor of o1.  *)
(*                                                                         *)
(* rank is the position of the block's id in the byte order of the ids,    *)
(* the order sorted() gives next_ids.                                      *)
(***************************************************************************)
BlockTable ==
  [ G  |-> [previous_block_rev |-> ROOT, operations_ids |-> <<"o1", "o2">>,
            operations_limit |-> 5, rank |-> 4],
    G2 |-> [previous_block_rev |-> ROOT, operations_ids |-> <<"o2", "o1">>,
            operations_limit |-> 5, rank |-> 2],
    A1 |-> [previous_block_rev |-> "G",  operations_ids |-> <<"o3", "o4">>,
            operations_limit |-> 5, rank |-> 6],
    B1 |-> [previous_block_rev |-> "G",  operations_ids |-> <<"o5", "o4">>,
            operations_limit |-> 5, rank |-> 3],
    B2 |-> [previous_block_rev |-> "B1", operations_ids |-> <<"o7", "o6">>,
            operations_limit |-> 5, rank |-> 1],
    X1 |-> [previous_block_rev |-> "G",  operations_ids |-> <<"o9", "o4">>,
            operations_limit |-> 5, rank |-> 7],
    X2 |-> [previous_block_rev |-> "G",  operations_ids |-> <<"o10", "o4">>,
            operations_limit |-> 5, rank |-> 8],
    M  |-> [previous_block_rev |-> "A1", operations_ids |-> <<"o11", "o6">>,
            operations_limit |-> 5, rank |-> 9],
    Y  |-> [previous_block_rev |-> "B2", operations_ids |-> <<"o12", "o13">>,
            operations_limit |-> 5, rank |-> 10],
    W1 |-> [previous_block_rev |-> "G",  operations_ids |-> <<"o3", "o4">>,
            operations_limit |-> 5, rank |-> 11],
    W2 |-> [previous_block_rev |-> "G",  operations_ids |-> <<"o3", "o4">>,
            operations_limit |-> 5, rank |-> 12],
    L1 |-> [previous_block_rev |-> "G",  operations_ids |-> <<"o3">>,
            operations_limit |-> 5, rank |-> 13],
    L2 |-> [previous_block_rev |-> "G",  operations_ids |-> <<"o5", "o7", "o4">>,
            operations_limit |-> 2, rank |-> 14],
    L3 |-> [previous_block_rev |-> "G",  operations_ids |-> <<"o3", "o4">>,
            operations_limit |-> 11, rank |-> 15],
    F  |-> [previous_block_rev |-> "A1", operations_ids |-> <<"o5", "o6">>,
            operations_limit |-> 5, rank |-> 16] ]

Blocks == DOMAIN BlockTable

\* The blocks the calls of the state machine are made with: all but F, which
\* the claims put from every state the others lead to
PutBlocks == Blocks \ {"F"}

Rank(id) == BlockTable[id].rank

Range(seq) == {seq[i] : i \in 1..Len(seq)}

VARIABLES
  blocks,       \* the blocks table: the ids of the persisted blocks
  operations,   \* the operations table: op id -> [stored, containing_blocks]
  identifiers,  \* the identifiers table: uuid -> op id, or NONE
  map,          \* BlockChain.__map: id -> [present, depth, previous_id, next_ids]
  head,         \* BlockChain.__head
  objects,      \* the containing_blocks tuple of each in-memory Operation object
  shared,       \* whether all Block objects hold the same Operation objects
  database,     \* core.__database: the file of the open Database, or NONE
  files,        \* file name -> its open handles and, while closed, its tables
  block,        \* a Block object under construction: what its miner works on
  signed,       \* an Operation object: its fields and its signature
  daemon,       \* pmpi-d: its protocol objects and the clients dictionary
  client        \* pmpi-cli: its event loop, operation_queue and new_block calls

vars ==
  <<blocks, operations, identifiers, map, head, objects, shared, database, files,
    block, signed, daemon, client>>

\* The connections the daemon accepts, one protocol object each
Conns == {"c1", "c2", "c3"}

\* What a connection sends: the DER of a public key, then tagged messages,
\* or a later piece of one, "ff", whose first two bytes are not UTF-8
ClientKeys == {"d1", "d2"}
Messages == {"OP", "ff"}
Data == ClientKeys \cup Messages

\* clients = {} and, for every connection, EchoServerClientProtocol.__init__;
\* written is what transport.write has sent down the connection
NewDaemon ==
  [ protocols |-> [c \in Conns |->
                     [transport |-> NONE, key |-> NONE, written |-> <<>>]],
    clients |-> [k \in Data |-> NONE] ]

\* The operations the network sends to a client
ClientOps == {"p1", "p2", "p3"}

\* The calls of new_block, one for each operation received
Calls == 1..Cardinality(ClientOps)

\* The client after connection_made: operation_queue = asyncio.Queue(), an
\* idle event loop, no new_block called yet, nothing stored, nothing sent
NewClient ==
  [ queue |-> <<>>, getters |-> <<>>, ready |-> <<>>, ntodo |-> 0,
    ops |-> [n \in Calls |-> <<>>], state |-> [n \in Calls |-> NONE],
    stored |-> {}, received |-> {}, written |-> <<>>, last |-> NONE ]

(***************************************************************************)
(* The state the handlers work on, as one record, with the exception the   *)
(* running call has raised (NONE while it has raised none).  A handler is  *)
(* an operator from such a record to the record it leaves behind; what it  *)
(* wrote before it raised stays written.                                   *)
(***************************************************************************)
Cur ==
  [ blocks |-> blocks, operations |-> operations, identifiers |-> identifiers,
    map |-> map, head |-> head, objects |-> objects, err |-> NONE ]

Raise(s, e) == [s EXCEPT !.err = e]

\* BlockChain.Record
Record(depth, previous_id, next_ids) ==
  [ present |-> TRUE, depth |-> depth, previous_id |-> previous_id,
    next_ids |-> next_ids ]

\* A key BlockChain.__map does not hold.
NoRecord ==
  [ present |-> FALSE, depth |-> -1, previous_id |-> NONE, next_ids |-> <<>> ]

\* A key the operations table does not hold.
NoRow == [ stored |-> FALSE, containing_blocks |-> <<>> ]

Row(cb) == [ stored |-> TRUE, containing_blocks |-> cb ]

\* The in-memory Operation object a Block object holds for operation o:
\* one object for all blocks (built once, as the tests do), or one per block
\* (decoded from the block's wire form by Block.from_raw_with_operations).
Obj(b, o) == <<IF shared THEN "any" ELSE b, o>>

ObjKeys == (Blocks \cup {"any"}) \X Ops

\* x + (id,), left as it is: the new id last
AppendLast(seq, id) == seq \o <<id>>

\* sorted(x + (id,)): next_ids stay ordered by id
SortedInsert(seq, id) ==
  SelectSeq(seq, LAMBDA y : Rank(y) <= Rank(id)) \o <<id>> \o
  SelectSeq(seq, LAMBDA y : Rank(y) > Rank(id))

\* BlockChain.max_depth
max_depth(s) == IF s.map[s.head].present THEN s.map[s.head].depth ELSE -1

\* BlockChain.add_block
add_block(s, b) ==
  IF s.map[b].present
  THEN Raise(s, "BlockDuplicationError")
  ELSE LET previous_id == BlockTable[b].previous_block_rev IN
       IF ~s.map[previous_id].present
       THEN Raise(s, "DoesNotExist")
       ELSE [s EXCEPT !.map =
               [@ EXCEPT ![previous_id].next_ids = SortedInsert(@, b),
                         ![b] = Record(s.map[previous_id].depth + 1, previous_id, <<>>)]]

\* the first loop alone: the deeper id raised to the depth of the other
RECURSIVE LcaWithoutLockstep(_, _, _)
LcaWithoutLockstep(m, id1, id2) ==
  IF id1 = NONE \/ id2 = NONE THEN NONE
  ELSE IF ~m[id1].present \/ ~m[id2].present THEN NONE
  ELSE IF m[id1].depth > m[id2].depth
       THEN LcaWithoutLockstep(m, m[id1].previous_id, id2)
  ELSE IF m[id1].depth < m[id2].depth
       THEN LcaWithoutLockstep(m, id1, m[id2].previous_id)
  ELSE id1

\* BlockChain.__lowest_common_ancestor (NONE: a get() on the way raised)
RECURSIVE lowest_common_ancestor(_, _, _)
lowest_common_ancestor(m, id1, id2) ==
  IF id1 = NONE \/ id2 = NONE THEN NONE
  ELSE IF ~m[id1].present \/ ~m[id2].present THEN NONE
  ELSE IF m[id1].depth > m[id2].depth
       THEN lowest_common_ancestor(m, m[id1].previous_id, id2)
  ELSE IF m[id1].depth < m[id2].depth
       THEN lowest_common_ancestor(m, id1, m[id2].previous_id)
  ELSE IF id1 = id2 THEN id1
  ELSE lowest_common_ancestor(m, m[id1].previous_id, m[id2].previous_id)

\* BlockChain.backward_blocks_chain, for an end_block_id that is an ancestor
RECURSIVE backward_blocks_chain(_, _, _)
backward_blocks_chain(m, block_id, end_block_id) ==
  IF block_id = ROOT \/ block_id = end_block_id
  THEN <<block_id>>
  ELSE <<block_id>> \o backward_blocks_chain(m, m[block_id].previous_id, end_block_id)

\* seq[:-1]
ButLast(seq) == SubSeq(seq, 1, Len(seq) - 1)

\* reversed(seq)
Reversed(seq) == [i \in 1..Len(seq) |-> seq[Len(seq) + 1 - i]]

(***************************************************************************)
(* Operation                                                               *)
(***************************************************************************)
Prev(o) == OperationTable[o].previous_operation_rev

Uuid(o) == OperationTable[o].uuid

\* The key the operation is signed with
Signer(o) == OperationTable[o].signer

Owners(o) == OperationTable[o].owners

\* Operation.verify without the test of the signer against the owners of
\* the previous operation: C11 fails under it.
OperationVerifyAnySigner(s, o) ==
  IF Len(Owners(o)) # Cardinality(Range(Owners(o))) THEN "VerifyError"
  ELSE IF Prev(o) = NONE THEN NONE
  ELSE IF ~shared /\ ~s.operations[Prev(o)].stored THEN "ChainError"
  ELSE IF Uuid(o) # Uuid(Prev(o)) THEN "VerifyError"
  ELSE NONE

\* Operation.verify: the error it raises, or NONE.  The previous operation
\* of a shared object is the object it was built from; that of a decoded
\* object is read from the operations table.
Operation_verify(s, o) ==
  IF Len(Owners(o)) # Cardinality(Range(Owners(o))) THEN "VerifyError"
  ELSE IF Prev(o) = NONE THEN NONE
  ELSE IF ~shared /\ ~s.operations[Prev(o)].stored THEN "ChainError"
  ELSE IF Signer(o) \notin Range(Owners(Prev(o))) THEN "OwnershipError"
  ELSE IF Uuid(o) # Uuid(Prev(o)) THEN "VerifyError"
  ELSE NONE

\* Operation.put_verify: the error it raises, or NONE
OperationPutVerifyAnyUuid(s, o) == NONE

Operation_put_verify(s, o) ==
  IF Prev(o) = NONE
     /\ \E rev \in Ops : s.operations[rev].stored /\ rev # o /\ Uuid(rev) = Uuid(o)
  THEN "ChainError"
  ELSE NONE

\* Operation.is_in_database
Operation_is_in_database(s, obj, o) ==
  /\ s.operations[o].stored
  /\ s.operations[o].containing_blocks = s.objects[obj]

OperationSuperPutDuplicateFirst(s, obj, o) ==
  IF Operation_verify(s, o) # NONE THEN Raise(s, Operation_verify(s, o))
  ELSE IF Operation_is_in_database(s, obj, o) THEN Raise(s, "DuplicationError")
  ELSE IF Operation_put_verify(s, o) # NONE THEN Raise(s, Operation_put_verify(s, o))
  ELSE [s EXCEPT !.operations[o] = Row(s.objects[obj])]

\* AbstractSignedObject.put, of an Operation
Operation_super_put(s, obj, o) ==
  IF Operation_verify(s, o) # NONE THEN Raise(s, Operation_verify(s, o))
  ELSE IF Operation_put_verify(s, o) # NONE THEN Raise(s, Operation_put_verify(s, o))
  ELSE IF ~Operation_is_in_database(s, obj, o)
       THEN [s EXCEPT !.operations[o] = Row(s.objects[obj])]
       ELSE Raise(s, "DuplicationError")

\* Operation.put(block_rev)
Operation_put(s, obj, o, b) ==
  LET \* Operation.__add_containing_block, on the object obj of operation o
      add_containing_block(st, ob, op, blk) ==
        IF blk \in st.blocks
        THEN IF op \notin Range(BlockTable[blk].operations_ids)
             THEN Raise(st, "DoesNotExist")
             ELSE IF blk \notin Range(st.objects[ob])
                  THEN [st EXCEPT !.objects[ob] = Append(@, blk)]
                  ELSE st
        ELSE Raise(st, "DoesNotExist")
  IN
  LET s1 == add_containing_block(s, obj, o, b) IN
  IF s1.err # NONE THEN s1 ELSE Operation_super_put(s1, obj, o)

\* Operation.remove(block_rev)
Operation_remove(s, obj, o, b) ==
  LET \* Operation.__remove_containing_block
      remove_containing_block(st, ob, op, blk) ==
        IF blk \in st.blocks
        THEN Raise(st, "ChainError")
        ELSE IF blk \notin Range(st.objects[ob])
             THEN Raise(st, "DoesNotExist")
             ELSE [st EXCEPT !.objects[ob] = SelectSeq(@, LAMBDA bl : bl # blk)]
  IN
  LET \* AbstractSignedObject.remove, of an Operation (remove_verify, then delete)
      Operation_super_remove(st, ob, op) ==
        IF Len(st.objects[ob]) > 0 THEN Raise(st, "ChainOperationBlockedError")
        ELSE IF ~st.operations[op].stored THEN Raise(st, "DoesNotExist")
        ELSE [st EXCEPT !.operations[op] = NoRow]
  IN
  LET s1 == remove_containing_block(s, obj, o, b) IN
  IF s1.err # NONE THEN s1
  ELSE IF Len(s1.objects[obj]) = 0 THEN Operation_super_remove(s1, obj, o)
  ELSE s1

(***************************************************************************)
(* BlockChain.__set_head                                                   *)
(***************************************************************************)
\* filter(lambda bl: bl in blocks_after_lca, op.containing_blocks), of the
\* stored operation o
ContainingAfterLca(s, after, o) ==
  SelectSeq(s.operations[o].containing_blocks, LAMBDA bl : bl \in after)

\* The rewind loop of one identifier whose operation o lies in exactly one
\* block after the LCA: the operation the identifier is rewound to, NONE
\* when the chain is left at its minting end, "raise" when a previous
\* operation is not in the operations table.
RECURSIVE RewindTarget(_, _, _)
RewindTarget(s, after, o) ==
  LET p == Prev(o) IN
  IF p = NONE THEN NONE
  ELSE IF ~s.operations[p].stored THEN "raise"
  ELSE IF Len(ContainingAfterLca(s, after, p)) = 1 THEN RewindTarget(s, after, p)
  ELSE p

\* The first loop of __set_head, over the identifiers the table held when
\* the loop began, in the order uuids of Identifier.get_uuid_list() (the
\* key order of the identifiers table).  The list of identifiers is built
\* before the first one is rewound.
RECURSIVE RewindFrom(_, _, _, _)
RewindFrom(s, after, uuids, i) ==
  LET \* The rewind of the identifier of one uuid
      RewindOne(st, aft, uuid) ==
        LET o == st.identifiers[uuid] IN
        IF ~st.operations[o].stored THEN Raise(st, "DoesNotExist")
        ELSE IF Len(ContainingAfterLca(st, aft, o)) = 1
             THEN LET target == RewindTarget(st, aft, o) IN
                  IF target = "raise" THEN Raise(st, "DoesNotExist")
                  ELSE [st EXCEPT !.identifiers[uuid] = target]
             ELSE st
  IN
  IF s.err # NONE \/ i > Len(uuids) THEN s
  ELSE RewindFrom(RewindOne(s, after, uuids[i]), after, uuids, i + 1)

ReplayOperationAnyPrevious(s, o) == [s EXCEPT !.identifiers[Uuid(o)] = o]

\* The body of the second loop of __set_head for one operation of a block
ReplayOperation(s, o) ==
  IF s.identifiers[Uuid(o)] # NONE
  THEN IF s.identifiers[Uuid(o)] = Prev(o)
       THEN [s EXCEPT !.identifiers[Uuid(o)] = o]
       ELSE Raise(s, "TreeError")
  ELSE IF Prev(o) = NONE
       THEN [s EXCEPT !.identifiers[Uuid(o)] = o]
       ELSE Raise(s, "TreeError")

RECURSIVE ReplayOperations(_, _, _)
ReplayOperations(s, ids, i) ==
  IF s.err # NONE \/ i > Len(ids) THEN s
  ELSE ReplayOperations(ReplayOperation(s, ids[i]), ids, i + 1)

RECURSIVE Replay(_, _, _)
Replay(s, chain, i) ==
  LET \* Block.get(block_id).operations, then the loop over them
      ReplayBlock(st, b) ==
        IF b \notin st.blocks THEN Raise(st, "DoesNotExist")
        ELSE IF \E o \in Range(BlockTable[b].operations_ids) : ~st.operations[o].stored
             THEN Raise(st, "DoesNotExist")
        ELSE ReplayOperations(st, BlockTable[b].operations_ids, 1)
  IN
  IF s.err # NONE \/ i > Len(chain) THEN s
  ELSE Replay(ReplayBlock(s, chain[i]), chain, i + 1)

\* BlockChain.__set_head(new_head_id); order is the key order of the
\* identifiers table.
set_head(s, new_head_id, order) ==
  LET Rewind(st, aft, ord) ==
        LET uuids == SelectSeq(ord, LAMBDA u : st.identifiers[u] # NONE) IN
        RewindFrom(st, aft, uuids, 1)
  IN
  LET lca_id == lowest_common_ancestor(s.map, s.head, new_head_id) IN
  IF lca_id = NONE THEN Raise(s, "DoesNotExist")
  ELSE
    LET blocks_after_lca == Range(ButLast(backward_blocks_chain(s.map, s.head, lca_id)))
        s1 == Rewind(s, blocks_after_lca, order)
        s2 == Replay(s1, Reversed(ButLast(backward_blocks_chain(s.map, new_head_id, lca_id))), 1)
    IN  IF s2.err # NONE THEN s2 ELSE [s2 EXCEPT !.head = new_head_id]

(***************************************************************************)
(* BlockChain.remove_block                                                 *)
(***************************************************************************)

\* The keys the loop of remove_block can end with as new_head: a candidate
\* of the greatest depth, the first of them in the iteration order of the
\* dict (which the code does not fix); NONE when there is no candidate.
NewHeads(s) ==
  LET \* The keys the head is rebuilt from when the head block is removed: every
      \* other key with no following block, or with the head as its only one.
      HeadCandidates(st) ==
        { key \in DOMAIN st.map :
            /\ st.map[key].present
            /\ key # st.head
            /\ (Len(st.map[key].next_ids) = 0 \/ st.map[key].next_ids = <<st.head>>) }
  IN
  IF HeadCandidates(s) = {} THEN {NONE}
  ELSE { key \in HeadCandidates(s) :
           \A other \in HeadCandidates(s) : s.map[other].depth <= s.map[key].depth }

\* BlockChain.remove_block(block), the loop ending with new_head
remove_block(s, b, new_head, order) ==
  IF ~s.map[b].present THEN Raise(s, "DoesNotExist")
  ELSE IF Len(s.map[b].next_ids) > 0 THEN Raise(s, "ChainOperationBlockedError")
  ELSE
    LET s1 == IF s.head = b THEN set_head(s, new_head, order) ELSE s IN
    IF s1.err # NONE THEN s1
    ELSE [s1 EXCEPT !.map =
            [@ EXCEPT ![s.map[b].previous_id].next_ids = SelectSeq(@, LAMBDA i : i # b),
                      ![b] = NoRecord]]

(***************************************************************************)
(* Proof of work                                                           *)
(*                                                                         *)
(* double_sha is a hash of HashBits bits in place of 256.  Of a block only *)
(* what unmined_raw() is made of is kept: content stands for the fields    *)
(* before difficulty (version, previous block, timestamp, operations       *)
(* limit, operations hashes).  For a given content and difficulty the hash *)
(* takes every value as the padding runs, so that mine() ends.  checksum   *)
(* is <<>> for None and <<h>> for the hash h.                              *)
(***************************************************************************)
HashBits == 3

MaxContent == 3

Contents == 0..MaxContent

\* Block.__init__: difficulty 1, padding 0, no checksum
NewBlock(content) ==
  [ content |-> content, difficulty |-> 1, padding |-> 0, checksum |-> <<>> ]

\* Block.unmined_raw
unmined_raw(blk) ==
  [ content |-> blk.content, difficulty |-> blk.difficulty, padding |-> blk.padding ]

double_sha(raw) ==
  (5 * raw.content + 2 * raw.difficulty + 3 * raw.padding) % (2 ^ HashBits)

\* (1 << 256 - difficulty) - 1
Target(difficulty) == 2 ^ (HashBits - difficulty) - 1

\* The loop of Block.mine: the padding it ends with
RECURSIVE MineLoop(_, _, _)
MineLoop(raw, padding, target) ==
  LET \* unmined_raw[:-4] + padding.to_bytes(4, 'big')
      WithPadding(unmined, pad) == [unmined EXCEPT !.padding = pad]
  IN
  IF double_sha(raw) > target
  THEN MineLoop(WithPadding(raw, padding + 1), padding + 1, target)
  ELSE padding

\* Block.mine
mine(blk) ==
  LET padding == MineLoop(unmined_raw(blk), 0, Target(blk.difficulty))
      mined == [blk EXCEPT !.padding = padding]
  IN  [mined EXCEPT !.checksum = <<double_sha(unmined_raw(mined))>>]

\* Block.checksum_correct
checksum_correct(blk) == blk.checksum = <<double_sha(unmined_raw(blk))>>

\* Step 6 of Block.verify: the checksum meets the difficulty target
MeetsTarget(blk) == double_sha(unmined_raw(blk)) <= Target(blk.difficulty)

\* The least padding from p on with which the hash of blk misses the target
RECURSIVE MissingPadding(_, _)
MissingPadding(blk, p) ==
  IF ~MeetsTarget([blk EXCEPT !.padding = p]) THEN p ELSE MissingPadding(blk, p + 1)

\* The Block object of a block of the table: built and mined once, but for
\* W1, whose checksum was changed after mining, and W2, whose checksum is
\* the hash of a padding that misses the target.
WorkTable ==
  [ b \in Blocks |->
      LET new == NewBlock(Rank(b) % (MaxContent + 1)) IN
      IF b = "W1"
      THEN [mine(new) EXCEPT !.checksum = <<(@[1] + 1) % (2 ^ HashBits)>>]
      ELSE IF b = "W2"
      THEN LET missed == [new EXCEPT !.padding = MissingPadding(new, 0)] IN
           [missed EXCEPT !.checksum = <<double_sha(unmined_raw(missed))>>]
      ELSE mine(new) ]

WorkOf(b) == WorkTable[b]

(***************************************************************************)
(* Block                                                                   *)
(***************************************************************************)
\* The operations of a block whose previous operation is p
WithPrevious(b, p) ==
  { i \in 1..Len(BlockTable[b].operations_ids) : Prev(BlockTable[b].operations_ids[i]) = p }

\* The first operation of the block that does not verify, as an error
RECURSIVE OperationsVerify(_, _, _)
OperationsVerify(s, ids, i) ==
  IF i > Len(ids) THEN NONE
  ELSE IF Operation_verify(s, ids[i]) # NONE THEN Operation_verify(s, ids[i])
  ELSE OperationsVerify(s, ids, i + 1)

\* Step 2 of Block.verify: MIN_OPERATIONS <= operations_limit <= MAX_OPERATIONS
LimitInRange(b) ==
  /\ MIN_OPERATIONS <= BlockTable[b].operations_limit
  /\ BlockTable[b].operations_limit <= MAX_OPERATIONS

\* Step 2 of Block.verify: MIN_OPERATIONS <= N <= operations_limit
CountWithinLimit(b) ==
  /\ MIN_OPERATIONS <= Len(BlockTable[b].operations_ids)
  /\ Len(BlockTable[b].operations_ids) <= BlockTable[b].operations_limit

\* Block.verify without the two tests of the operations limits: C21 fails
\* under it.
BlockVerifyAnyLimit(s, b) ==
  LET ids == BlockTable[b].operations_ids IN
  IF ~checksum_correct(WorkOf(b)) THEN "VerifyError"
  ELSE IF \E p \in Range(ids) : Cardinality(WithPrevious(b, p)) > 1 THEN "ChainError"
  ELSE IF OperationsVerify(s, ids, 1) # NONE THEN OperationsVerify(s, ids, 1)
  ELSE IF BlockTable[b].previous_block_rev # ROOT
          /\ BlockTable[b].previous_block_rev \notin s.blocks THEN "ChainError"
  ELSE IF ~MeetsTarget(WorkOf(b)) THEN "VerifyError"
  ELSE NONE

\* Block.verify without the test for the previous block: C19 fails under it.
BlockVerifyAnyParent(s, b) ==
  LET ids == BlockTable[b].operations_ids IN
  IF ~checksum_correct(WorkOf(b)) THEN "VerifyError"
  ELSE IF ~LimitInRange(b) THEN "VerifyError"
  ELSE IF ~CountWithinLimit(b) THEN "VerifyError"
  ELSE IF \E p \in Range(ids) : Cardinality(WithPrevious(b, p)) > 1 THEN "ChainError"
  ELSE IF OperationsVerify(s, ids, 1) # NONE THEN OperationsVerify(s, ids, 1)
  ELSE IF ~MeetsTarget(WorkOf(b)) THEN "VerifyError"
  ELSE NONE

\* Block.verify: the error it raises, or NONE
Block_verify(s, b) ==
  LET ids == BlockTable[b].operations_ids IN
  IF ~checksum_correct(WorkOf(b)) THEN "VerifyError"
  ELSE IF ~LimitInRange(b) THEN "VerifyError"
  ELSE IF ~CountWithinLimit(b) THEN "VerifyError"
  ELSE IF \E p \in Range(ids) : Cardinality(WithPrevious(b, p)) > 1 THEN "ChainError"
  ELSE IF OperationsVerify(s, ids, 1) # NONE THEN OperationsVerify(s, ids, 1)
  ELSE IF BlockTable[b].previous_block_rev # ROOT
          /\ BlockTable[b].previous_block_rev \notin s.blocks THEN "ChainError"
  ELSE IF ~MeetsTarget(WorkOf(b)) THEN "VerifyError"
  ELSE NONE

\* Block.put_verify without the test for a stored genesis block: C6 fails
\* under it.
PutVerifyAnyGenesis(s, b) == NONE

\* Block.put_verify: the error it raises, or NONE
Block_put_verify(s, b) ==
  IF BlockTable[b].previous_block_rev = ROOT /\ Len(s.map[ROOT].next_ids) > 0
  THEN "GenesisBlockDuplication"
  ELSE NONE

\* AbstractSignedObject.put, of a Block
Block_super_put(s, b) ==
  IF Block_verify(s, b) # NONE THEN Raise(s, Block_verify(s, b))
  ELSE IF Block_put_verify(s, b) # NONE THEN Raise(s, Block_put_verify(s, b))
  ELSE IF b \in s.blocks THEN Raise(s, "DuplicationError")
  ELSE [s EXCEPT !.blocks = @ \cup {b}]

RECURSIVE OperationsPut(_, _, _)
OperationsPut(s, b, i) ==
  IF s.err # NONE \/ i > Len(BlockTable[b].operations_ids) THEN s
  ELSE LET o == BlockTable[b].operations_ids[i] IN
       OperationsPut(Operation_put(s, Obj(b, o), o, b), b, i + 1)

\* Block.put
Block_put(s, b) ==
  LET AfterAddBlock(s2) == IF s2.err # NONE THEN s2 ELSE OperationsPut(s2, b, 1)
      AfterSuperPut(s1) == IF s1.err # NONE THEN s1 ELSE AfterAddBlock(add_block(s1, b))
  IN  AfterSuperPut(Block_super_put(s, b))

\* AbstractSignedObject.remove, of a Block
Block_super_remove(s, b) ==
  LET \* Block.remove_verify: the error it raises, or NONE
      Block_remove_verify(st, blk) ==
        IF ~st.map[blk].present THEN "DoesNotExist"
        ELSE IF Len(st.map[blk].next_ids) > 0 THEN "ChainOperationBlockedError"
        ELSE NONE
  IN
  IF Block_remove_verify(s, b) # NONE THEN Raise(s, Block_remove_verify(s, b))
  ELSE IF b \notin s.blocks THEN Raise(s, "DoesNotExist")
  ELSE [s EXCEPT !.blocks = @ \ {b}]

RECURSIVE OperationsRemove(_, _, _)
OperationsRemove(s, b, i) ==
  IF s.err # NONE \/ i > Len(BlockTable[b].operations_ids) THEN s
  ELSE LET o == BlockTable[b].operations_ids[i] IN
       OperationsRemove(Operation_remove(s, Obj(b, o), o, b), b, i + 1)

\* Block.remove
Block_remove(s, b, new_head, order) ==
  LET s1 == Block_super_remove(s, b) IN
  IF s1.err # NONE THEN s1
  ELSE LET s2 == remove_block(s1, b, new_head, order) IN
       IF s2.err # NONE THEN s2 ELSE OperationsRemove(s2, b, 1)

(***************************************************************************)
(* BlockChain.update_blocks                                                *)
(***************************************************************************)
\* Deeper with a level depth counted as deeper: the tie-break of C3 fails
\* under it.
DeeperOrLevel(depth, than) == depth >= than

\* The comparison update_blocks makes, of a record's depth in its loop and of
\* new_max_depth after it
Deeper(depth, than) == depth > than

\* The loop of update_blocks, were a failing block.put() swallowed and the
\* next block taken: C5 fails under it.
RECURSIVE UpdateLoopPastFailure(_, _, _, _, _)
UpdateLoopPastFailure(s, batch, i, new_max_depth, new_head) ==
  IF i > Len(batch)
  THEN [state |-> s, new_max_depth |-> new_max_depth, new_head |-> new_head, put |-> i - 1]
  ELSE LET AfterPut(s1) ==
             IF s1.err # NONE
             THEN UpdateLoopPastFailure([s1 EXCEPT !.err = NONE], batch, i + 1,
                                        new_max_depth, new_head)
             ELSE IF Deeper(s1.map[batch[i]].depth, new_max_depth)
                  THEN UpdateLoopPastFailure(s1, batch, i + 1, s1.map[batch[i]].depth, batch[i])
                  ELSE UpdateLoopPastFailure(s1, batch, i + 1, new_max_depth, new_head)
       IN  AfterPut(Block_put(s, batch[i]))

\* The loop of update_blocks over the blocks _get_new_blocks() yields, from
\* the i-th on: the state it leaves, with new_max_depth, new_head and the
\* number of blocks put.
RECURSIVE UpdateLoop(_, _, _, _, _)
UpdateLoop(s, batch, i, new_max_depth, new_head) ==
  IF i > Len(batch)
  THEN [state |-> s, new_max_depth |-> new_max_depth, new_head |-> new_head, put |-> i - 1]
  ELSE LET AfterPut(s1) ==
             IF s1.err # NONE
             THEN [state |-> s1, new_max_depth |-> new_max_depth, new_head |-> new_head, put |-> i - 1]
             ELSE IF Deeper(s1.map[batch[i]].depth, new_max_depth)
                  THEN UpdateLoop(s1, batch, i + 1, s1.map[batch[i]].depth, batch[i])
                  ELSE UpdateLoop(s1, batch, i + 1, new_max_depth, new_head)
       IN  AfterPut(Block_put(s, batch[i]))

\* Whether update_blocks moves the head after its loop
MovesHead(new_max_depth, s) == Deeper(new_max_depth, max_depth(s))

\* BlockChain.update_blocks, given the blocks _get_new_blocks() yields
update_blocks(s, batch, order) ==
  LET AfterLoop(r) ==
        IF r.state.err # NONE THEN r.state
        ELSE IF MovesHead(r.new_max_depth, r.state)
             THEN set_head(r.state, r.new_head, order)
             ELSE r.state
  IN  AfterLoop(UpdateLoop(s, batch, 1, max_depth(s), s.head))

(***************************************************************************)
(* Signed objects and their wire form                                      *)
(*                                                                         *)
(* bytes are sequences of numbers of 0..255, a str is the sequence of its  *)
(* code points, a key is known by its DER bytes.  The signature a private  *)
(* key makes over a message is the tag of the key followed by a digest of  *)
(* the message, so that it verifies with the public key of that key over   *)
(* that message only.  An Operation object is the record of its four       *)
(* fields and of the four fields of AbstractSignedObject.                  *)
(***************************************************************************)
\* The longest address and the longest list of owners of an operation that
\* is encoded
MaxAddress == 2

MaxOwners == 2

Keys == {"K1", "K2"}

\* PublicKey.der
DER(k) == IF k = "K1" THEN <<48, 1>> ELSE <<48, 2, 2>>

\* n.to_bytes(4, 'big')
to_bytes4(n) ==
  << (n \div 16777216) % 256, (n \div 65536) % 256, (n \div 256) % 256, n % 256 >>

\* int.from_bytes(b, 'big') of four bytes; the numbers from 2^31 on, longer
\* than any buffer, are read as 2^31 - 1
from_bytes4(b) ==
  IF b[1] >= 128 THEN 2147483647
  ELSE ((b[1] * 256 + b[2]) * 256 + b[3]) * 256 + b[4]

\* bytes(s, 'utf-8'), for code points below 2048
RECURSIVE utf8(_)
utf8(str) ==
  IF Len(str) = 0 THEN <<>>
  ELSE (IF Head(str) < 128 THEN <<Head(str)>>
        ELSE <<192 + (Head(str) \div 64), 128 + (Head(str) % 64)>>) \o utf8(Tail(str))

\* b.decode('utf-8'), for code points below 2048: the str, or
\* "UnicodeDecodeError"
RECURSIVE decode_utf8(_)
decode_utf8(b) ==
  IF Len(b) = 0 THEN <<>>
  ELSE IF b[1] < 128
       THEN LET rest == decode_utf8(Tail(b)) IN
            IF rest = "UnicodeDecodeError" THEN rest ELSE <<b[1]>> \o rest
  ELSE IF b[1] >= 192 /\ b[1] < 224 /\ Len(b) >= 2 /\ b[2] >= 128 /\ b[2] < 192
       THEN LET rest == decode_utf8(Tail(Tail(b))) IN
            IF rest = "UnicodeDecodeError" THEN rest
            ELSE <<(b[1] - 192) * 64 + (b[2] - 128)>> \o rest
  ELSE "UnicodeDecodeError"

\* the digest of the bytes lo..hi of b: each byte weighted by its position
RECURSIVE Digest(_, _, _)
Digest(b, lo, hi) ==
  IF lo > hi THEN 0
  ELSE IF lo = hi THEN ((lo + 30) * (b[lo] + 1)) % 65521
  ELSE LET mid == (lo + hi) \div 2
       IN  (Digest(b, lo, mid) + Digest(b, mid + 1, hi)) % 65521

\* double_sha of bytes, as a hash of two bytes
DoubleSha(b) ==
  LET Bytes2(d) == <<d \div 256, d % 256>>
  IN  Bytes2((7 + 131 * Len(b) + Digest(b, 1, Len(b))) % 65521)

\* private_key.sign_deterministic(message), of the private key of k
Signature(k, message) ==
  <<IF k = "K1" THEN 1 ELSE 2>> \o DoubleSha(message)

\* verifying_key.verify(signature, message): FALSE is BadSignatureError
KeyVerifies(der, signature, message) ==
  \E k \in Keys : DER(k) = der /\ signature = Signature(k, message)

\* bytes(rev) of an OperationRev: 32 zero bytes for the sentinel
IdBytes(rev) == [i \in 1..32 |-> IF rev = NONE THEN 0 ELSE IF rev = "o1" THEN 17 ELSE 34]

\* uuid.bytes
UuidBytes(u) == [i \in 1..16 |-> IF u = "U1" THEN 1 ELSE 2]

\* Operation.__init__ beside the class attributes of AbstractSignedObject
Operation_init(previous_operation_rev, uuid, address, owners) ==
  [ previous_operation_rev |-> previous_operation_rev, uuid |-> uuid,
    address |-> address, owners |-> owners,
    public_key |-> NONE, signature |-> NONE,
    requires_signature_verification |-> TRUE, hash |-> NONE ]

\* b''.join([len(owner).to_bytes(4, 'big') + owner for owner in owners_der])
RECURSIVE SizedJoin(_)
SizedJoin(items) ==
  IF Len(items) = 0 THEN <<>>
  ELSE to_bytes4(Len(Head(items))) \o Head(items) \o SizedJoin(Tail(items))

\* Operation.unsigned_raw
Operation_unsigned_raw(obj) ==
  to_bytes4(1) \o IdBytes(obj.previous_operation_rev) \o UuidBytes(obj.uuid)
  \o to_bytes4(Len(obj.address)) \o utf8(obj.address)
  \o to_bytes4(Len(obj.owners)) \o SizedJoin(obj.owners)

\* What a method of the object leaves: the object, the value it returns and
\* the exception it raises
Returns(obj, value) == [ obj |-> obj, value |-> value, err |-> NONE ]

Raises(obj, e) == [ obj |-> obj, value |-> NONE, err |-> e ]

\* AbstractSignedObject.sign
sign(obj, public_key, signature) ==
  [obj EXCEPT !.public_key = public_key, !.signature = signature,
              !.requires_signature_verification = TRUE]

\* AbstractSignedObject.verify_signature
verify_signature(obj) ==
  IF obj.requires_signature_verification
  THEN IF obj.signature # NONE
       THEN IF KeyVerifies(obj.public_key, obj.signature, Operation_unsigned_raw(obj))
            THEN Returns([obj EXCEPT !.requires_signature_verification = FALSE], NONE)
            ELSE Raises(obj, "VerifyError: wrong signature")
       ELSE Raises(obj, "VerifyError: object is not signed")
  ELSE Returns(obj, NONE)

\* AbstractSignedObject.raw
raw(obj) ==
  LET Verified(r) ==
        IF r.err # NONE THEN r
        ELSE Returns(r.obj, Operation_unsigned_raw(r.obj)
                            \o to_bytes4(Len(r.obj.public_key)) \o r.obj.public_key
                            \o to_bytes4(Len(r.obj.signature)) \o r.obj.signature)
  IN  Verified(verify_signature(obj))

\* AbstractSignedObject.hash
hash(obj) ==
  IF obj.requires_signature_verification \/ obj.hash = NONE
  THEN LET Serialised(r) ==
             IF r.err # NONE THEN r
             ELSE Returns([r.obj EXCEPT !.hash = DoubleSha(r.value)], DoubleSha(r.value))
       IN  Serialised(raw(obj))
  ELSE Returns(obj, obj.hash)

\* A BytesIO over the bytes buf, read up to pos, with the values read so far
\* and the exception a read has raised
BytesIO(buf) == [ buf |-> buf, pos |-> 0, out |-> <<>>, err |-> NONE ]

Last(seq) == seq[Len(seq)]

\* utils.read_bytes
read_bytes(r, size) ==
  IF r.err # NONE THEN r
  ELSE IF size > Len(r.buf) - r.pos
       THEN [r EXCEPT !.err = "RawFormatError: raw input too short"]
  ELSE [r EXCEPT !.pos = @ + size,
                 !.out = Append(@, SubSeq(r.buf, r.pos + 1, r.pos + size))]

\* utils.read_uint32
read_uint32(r) ==
  LET Read(q) ==
        IF q.err # NONE THEN q
        ELSE [q EXCEPT !.out = Append(ButLast(@), from_bytes4(Last(q.out)))]
  IN  Read(read_bytes(r, 4))

\* utils.read_sized_bytes
read_sized_bytes(r) ==
  LET Sized(q) ==
        IF q.err # NONE THEN q
        ELSE read_bytes([q EXCEPT !.out = ButLast(@)], Last(q.out))
  IN  Sized(read_uint32(r))

\* tuple(read_sized_bytes(buffer) for _ in range(n)), after the items read
RECURSIVE ReadMany(_, _, _)
ReadMany(r, n, items) ==
  IF r.err # NONE THEN r
  ELSE IF n = 0 THEN [r EXCEPT !.out = Append(@, items)]
  ELSE LET Item(q) ==
             IF q.err # NONE THEN q
             ELSE ReadMany([q EXCEPT !.out = ButLast(@)], n - 1, Append(items, Last(q.out)))
       IN  Item(read_sized_bytes(r))

\* tuple(read_sized_bytes(buffer) for _ in range(read_uint32(buffer)))
ReadOwners(r) ==
  LET Counted(q) ==
        IF q.err # NONE THEN q
        ELSE ReadMany([q EXCEPT !.out = ButLast(@)], Last(q.out), <<>>)
  IN  Counted(read_uint32(r))

\* Operation.verify, of an object whose previous_operation_rev is resolved
\* from the operations table
Object_verify(s, obj) ==
  LET Verified(r) ==
        IF r.err # NONE THEN r
        ELSE IF Len(r.obj.owners) # Cardinality(Range(r.obj.owners))
             THEN Raises(r.obj, "VerifyError: duplicated owners")
        ELSE IF r.obj.previous_operation_rev = NONE THEN Returns(r.obj, TRUE)
        ELSE IF r.obj.previous_operation_rev \notin Ops
             THEN Raises(r.obj, "ChainError")
        ELSE IF ~s.operations[r.obj.previous_operation_rev].stored
             THEN Raises(r.obj, "ChainError")
        ELSE IF r.obj.public_key
                  \notin { DER(k) : k \in Range(Owners(r.obj.previous_operation_rev)) }
             THEN Raises(r.obj, "OwnershipError")
        ELSE IF r.obj.uuid # Uuid(r.obj.previous_operation_rev)
             THEN Raises(r.obj, "VerifyError: uuid mismatch")
        ELSE Returns(r.obj, TRUE)
  IN  Verified(verify_signature(obj))

\* AbstractSignedObject.from_raw, of an Operation
Operation_from_raw(s, b) ==
  LET \* Operation._from_raw_without_verifying
      Operation_from_raw_without_verifying(wire) ==
        LET \* utils.read_string
            read_string(r) ==
              LET Decoded(q) ==
                    IF q.err # NONE THEN q
                    ELSE IF decode_utf8(Last(q.out)) = "UnicodeDecodeError"
                         THEN [q EXCEPT !.err = "UnicodeDecodeError"]
                    ELSE [q EXCEPT !.out = Append(ButLast(@), decode_utf8(Last(q.out)))]
              IN  Decoded(read_sized_bytes(r))
        IN
        LET \* if read_uint32(buffer) != cls.VERSION: raise RawFormatError
            ReadVersion(r) ==
              LET Read(q) ==
                    IF q.err = NONE /\ Last(q.out) # 1
                    THEN [q EXCEPT !.err = "RawFormatError: version number mismatch"]
                    ELSE q
              IN  Read(read_uint32(r))
        IN
        LET \* UUID(bytes=bs)
            UuidOf(bs) ==
              IF bs = UuidBytes("U1") THEN "U1" ELSE IF bs = UuidBytes("U2") THEN "U2" ELSE "unknown"
        IN
        LET \* OperationRev.from_id(bytes), and OperationRev() when the bytes are zero
            RevOf(bs) ==
              IF from_bytes4(SubSeq(bs, 1, 4)) = 0 /\ \A i \in 5..32 : bs[i] = 0 THEN NONE
              ELSE IF bs = IdBytes("o1") THEN "o1"
              ELSE "unknown"
        IN
        LET Parsed(r) ==
              IF r.err # NONE THEN Raises(NONE, r.err)
              ELSE IF r.pos < Len(r.buf) THEN Raises(NONE, "RawFormatError: raw input too long")
              ELSE Returns(sign(Operation_init(RevOf(r.out[2]), UuidOf(r.out[3]),
                                               r.out[4], r.out[5]),
                                r.out[6], r.out[7]), NONE)
        IN  Parsed(read_sized_bytes(read_sized_bytes(ReadOwners(read_string(
              read_bytes(read_bytes(ReadVersion(BytesIO(wire)), 32), 16))))))
  IN
  LET Decoded(r) == IF r.err # NONE THEN r ELSE Object_verify(s, r.obj)
  IN  Decoded(Operation_from_raw_without_verifying(b))

\* [Operation.from_raw(read_sized_bytes(buffer)) for _ in range(read_uint32(buffer))],
\* the head of Block.from_raw_with_operations: the objects, or the first
\* exception
RECURSIVE FromRawEach(_, _, _)
FromRawEach(s, raws, i) ==
  IF i > Len(raws) THEN Returns(<<>>, NONE)
  ELSE LET First(r) ==
             IF r.err # NONE THEN r
             ELSE LET Rest(q) ==
                        IF q.err # NONE THEN q ELSE Returns(<<r.obj>> \o q.obj, NONE)
                  IN  Rest(FromRawEach(s, raws, i + 1))
       IN  First(Operation_from_raw(s, raws[i]))

(***************************************************************************)
(* The state machine                                                       *)
(***************************************************************************)
\* The database files of the tests
Files == {"test_database_file", "test_database_file2"}

\* A file no Database has open, with the tables it holds
Closed(bl, ops, ids) ==
  [ open |-> 0, blocks |-> bl, operations |-> ops, identifiers |-> ids ]

\* A file that holds nothing yet (DB_CREATE makes it on the first open)
NewFile == Closed({}, [o \in Ops |-> NoRow], [u \in UUIDs |-> NONE])

\* The orders in which the identifiers table can list its keys
Orders == { order \in [1..Cardinality(UUIDs) -> UUIDs] : Range(order) = UUIDs }

\* The batches _get_new_blocks() can yield
Batches ==
  LET \* The blocks of the tree of G, which the longer batches of update_blocks
      \* are drawn from
      ChainBlocks == {"G", "A1", "B1", "B2"}
  IN
  UNION { [1..n -> ChainBlocks] : n \in 0..MaxBatch } \cup [1..1 -> PutBlocks]

\* The state after initialise_database() on a new file: empty tables, and
\* the tree BlockChain.__init__ builds from them.
Init ==
  /\ blocks = {}
  /\ operations = [o \in Ops |-> NoRow]
  /\ identifiers = [u \in UUIDs |-> NONE]
  /\ map = [id \in Blocks \cup {ROOT} |->
              IF id = ROOT THEN Record(0, NONE, <<>>) ELSE NoRecord]
  /\ head = ROOT
  /\ objects = [k \in ObjKeys |-> <<>>]
  /\ shared \in BOOLEAN
  /\ database = "test_database_file"
  /\ files = [f \in Files |->
               IF f = "test_database_file" THEN [NewFile EXCEPT !.open = 1]
               ELSE NewFile]
  /\ block = NewBlock(0)
  /\ signed = Operation_init(NONE, "U1", <<>>, <<>>)
  /\ daemon = NewDaemon
  /\ client = NewClient

\* The tables, the tree and the objects a call leaves behind
StoreLeaves(s) ==
  /\ blocks' = s.blocks
  /\ operations' = s.operations
  /\ identifiers' = s.identifiers
  /\ map' = s.map
  /\ head' = s.head
  /\ objects' = s.objects
  /\ shared' = shared
  /\ block' = block
  /\ signed' = signed
  /\ daemon' = daemon
  /\ client' = client

\* The state a call leaves behind while the Database stays open
Leaves(s) == StoreLeaves(s) /\ UNCHANGED <<database, files>>

\* block.put(), called on its own
BlockPut(b) ==
  \E s \in {Block_put(Cur, b)} : Leaves(s)

\* block.remove()
BlockRemove(b, new_head, order) ==
  \E s \in {Block_remove(Cur, b, new_head, order)} : Leaves(s)

\* blockchain.update_blocks()
UpdateBlocks(batch, order) ==
  \E s \in {update_blocks(Cur, batch, order)} : Leaves(s)

Next ==
  \/ \E b \in PutBlocks : BlockPut(b)
  \/ \E b \in PutBlocks, order \in Orders : \E new_head \in NewHeads(Cur) :
       BlockRemove(b, new_head, order)
  \/ \E batch \in Batches, order \in Orders : UpdateBlocks(batch, order)

Spec == Init /\ [][Next]_vars

(***************************************************************************)
(* What the head chain says the identifiers table should be                *)
(***************************************************************************)
\* The blocks on the path from the sentinel to the head, the sentinel left out
HeadChain(s) == Reversed(ButLast(backward_blocks_chain(s.map, s.head, ROOT)))

\* The operations of the blocks of a chain, in the order of the chain
RECURSIVE ChainOperations(_)
ChainOperations(chain) ==
  IF Len(chain) = 0 THEN <<>>
  ELSE BlockTable[Head(chain)].operations_ids \o ChainOperations(Tail(chain))

\* The last operation of a uuid in a sequence of operations, or NONE
LastOperation(ids, uuid) ==
  LET at == { i \in 1..Len(ids) : Uuid(ids[i]) = uuid } IN
  IF at = {} THEN NONE ELSE ids[CHOOSE i \in at : \A j \in at : j <= i]

\* The table obtained by walking the head chain from the sentinel to the head
WalkTable(s) == [u \in UUIDs |-> LastOperation(ChainOperations(HeadChain(s)), u)]

(***************************************************************************)
(* The identifiers table and the head                                      *)
(***************************************************************************)
\* C1: after every completed update_blocks call and every completed
\* Block.remove, the identifiers table is the table obtained by walking the
\* head chain from the sentinel to the head.
C1_TableIsWalkOfHeadChain ==
  /\ \A batch \in Batches, order \in Orders :
       LET s == update_blocks(Cur, batch, order) IN
       s.err = NONE => s.identifiers = WalkTable(s)
  /\ \A b \in Blocks, order \in Orders : \A new_head \in NewHeads(Cur) :
       LET s == Block_remove(Cur, b, new_head, order) IN
       s.err = NONE => s.identifiers = WalkTable(s)

\* C2: in every reachable state the head is a record without children whose
\* depth is the greatest depth of the tree, and max_depth is that depth.
C2_HeadIsDeepestLeaf ==
  /\ map[head].present
  /\ Len(map[head].next_ids) = 0
  /\ \A id \in DOMAIN map : map[id].present => map[id].depth <= map[head].depth
  /\ max_depth(Cur) = map[head].depth

\* C3: an update_blocks call that inserts only blocks no deeper than the
\* current max_depth leaves the head, max_depth and the identifiers table as
\* they were.
C3_LevelBlocksKeepHead ==
  \A batch \in Batches, order \in Orders :
    LET r == UpdateLoop(Cur, batch, 1, max_depth(Cur), head)
        s == update_blocks(Cur, batch, order)
    IN  (\A i \in 1..r.put : r.state.map[batch[i]].depth <= map[head].depth)
        => /\ s.head = head
           /\ s.map[s.head].depth = map[head].depth
           /\ s.identifiers = identifiers

\* A state where a sibling as deep as the head is inserted by update_blocks
\* and the head stays.
C3_Witness ==
  \E batch \in Batches, order \in Orders :
    LET s == update_blocks(Cur, batch, order) IN
    /\ Len(batch) = 1
    /\ batch[1] \notin blocks
    /\ s.err = NONE
    /\ batch[1] \in s.blocks
    /\ head # ROOT
    /\ s.map[batch[1]].depth = map[head].depth
    /\ s.head = head

\* C4: an update_blocks call whose set_head raises TreeError leaves the
\* head and the whole identifiers table as they were before the call.
C4_TreeErrorRollsBack ==
  \A batch \in Batches, order \in Orders :
    LET s == update_blocks(Cur, batch, order) IN
    s.err = "TreeError" => s.head = head /\ s.identifiers = identifiers

(***************************************************************************)
(* Failing blocks                                                          *)
(***************************************************************************)
\* The state after block.put() of the first n blocks of a batch, one after
\* the other
RECURSIVE PutEach(_, _, _)
PutEach(s, batch, n) ==
  IF n = 0 THEN s ELSE Block_put(PutEach(s, batch, n - 1), batch[n])

\* C5: if block.put() fails for the k-th block of a batch, update_blocks
\* reports that error, the blocks before the k-th stay in the blocks table
\* and in the tree, and nothing is done after the failing put.
C5_BatchStopsAtFirstFailure ==
  \A batch \in Batches, order \in Orders : \A k \in 1..Len(batch) :
    LET before == PutEach(Cur, batch, k - 1)
        failed == PutEach(Cur, batch, k)
        s == update_blocks(Cur, batch, order)
    IN  (before.err = NONE /\ failed.err # NONE)
        => /\ s.err = failed.err
           /\ \A i \in 1..(k - 1) : batch[i] \in s.blocks /\ s.map[batch[i]].present
           /\ s = failed

\* A state where the second block of a batch fails after the first, a new
\* block, was put.
C5_Witness ==
  \E batch \in Batches, order \in Orders :
    /\ Len(batch) = 2
    /\ batch[1] \notin blocks
    /\ PutEach(Cur, batch, 1).err = NONE
    /\ PutEach(Cur, batch, 2).err # NONE
    /\ batch[1] \in update_blocks(Cur, batch, order).blocks

C7_RemoveBlockedByChildrenOnly ==
  \A b \in blocks : \A order \in Orders : \A new_head \in NewHeads(Cur) :
    LET s == Block_remove(Cur, b, new_head, order) IN
    IF \E c \in blocks : BlockTable[c].previous_block_rev = b
    THEN s = Raise(Cur, "ChainOperationBlockedError")
    ELSE s.err = NONE

\* C8: block.put() of an accepted block and then block.remove() of it
\* restore the blocks table, the operations table, the tree and the head.
C8_PutThenRemoveRestores ==
  \A b \in Blocks :
    LET s1 == Block_put(Cur, b) IN
    s1.err = NONE
    => \A order \in Orders : \A new_head \in NewHeads(s1) :
         LET s2 == Block_remove(s1, b, new_head, order) IN
         /\ s2.err = NONE
         /\ s2.blocks = blocks
         /\ s2.operations = operations
         /\ s2.map = map
         /\ s2.head = head

(***************************************************************************)
(* The operations table                                                    *)
(***************************************************************************)
\* The persisted blocks that list an operation
Listing(o) == { b \in blocks : o \in Range(BlockTable[b].operations_ids) }

\* C9: every operation a persisted block lists has a row, and the
\* containing_blocks of every row are exactly the persisted blocks listing
\* the operation.
C9_ContainingBlocksAreListingBlocks ==
  \A o \in Ops :
    /\ Listing(o) # {} => operations[o].stored
    /\ operations[o].stored => Range(operations[o].containing_blocks) = Listing(o)

\* C10: an operation has a row exactly when a persisted block lists it.
C10_RowIffListed ==
  \A o \in Ops : operations[o].stored <=> Listing(o) # {}

(***************************************************************************)
(* Verification of operations and blocks                                   *)
(***************************************************************************)

\* C11: a non-minting operation that verifies, and so every stored one, has
\* the uuid of its previous operation and is signed by one of its owners;
\* verify raises OwnershipError when the signer is not one of them, and
\* accepts the operation when it is.
C11_SignedByPreviousOwner ==
  LET \* Whether verify can read the previous operation of o
      Resolves(o) == shared \/ operations[Prev(o)].stored
  IN
  \A o \in Ops :
    Prev(o) # NONE =>
      /\ (Operation_verify(Cur, o) = NONE \/ operations[o].stored)
         => /\ Uuid(o) = Uuid(Prev(o))
            /\ Signer(o) \in Range(Owners(Prev(o)))
      /\ (Resolves(o) /\ Signer(o) \notin Range(Owners(Prev(o))))
         => Operation_verify(Cur, o) = "OwnershipError"
      /\ (Resolves(o) /\ Signer(o) \in Range(Owners(Prev(o))) /\ Uuid(o) = Uuid(Prev(o)))
         => Operation_verify(Cur, o) = NONE

\* A state where o3, signed by the owner of o1, is stored, and the put of
\* the block holding o9, signed by another key, raises OwnershipError.
C11_Witness ==
  /\ operations["o3"].stored
  /\ Block_put(Cur, "X1").err = "OwnershipError"

\* C12: block.put() of a block in which two operations follow the same
\* operation raises ChainError, and no stored block holds two such
\* operations.
C12_NoForkInsideBlock ==
  LET \* Whether two operations of the block follow the same operation
      ForksInside(b) ==
        LET ids == BlockTable[b].operations_ids IN
        \E i, j \in 1..Len(ids) : i # j /\ Prev(ids[i]) # NONE /\ Prev(ids[i]) = Prev(ids[j])
  IN
  /\ \A b \in Blocks : ForksInside(b) => Block_put(Cur, b).err = "ChainError"
  /\ \A b \in blocks : ~ForksInside(b)

(***************************************************************************)
(* Putting a block on the head                                             *)
(***************************************************************************)
\* C13: block.put() of a valid block whose parent is the head makes the
\* block the head, raises max_depth by one and sets the identifier of every
\* uuid the block touches to the block's operation for it.
C13_PutOnHeadMovesHead ==
  \A b \in Blocks :
    LET s == Block_put(Cur, b) IN
    (BlockTable[b].previous_block_rev = head /\ s.err = NONE)
    => /\ s.head = b
       /\ max_depth(s) = max_depth(Cur) + 1
       /\ \A u \in UUIDs :
            LastOperation(BlockTable[b].operations_ids, u) # NONE
            => s.identifiers[u] = LastOperation(BlockTable[b].operations_ids, u)

(***************************************************************************)
(* Minting operations                                                      *)
(***************************************************************************)

RECURSIVE WalkOnHeadChain(_, _)
WalkOnHeadChain(o, u) ==
  /\ operations[o].stored
  /\ Uuid(o) = u
  /\ \E b \in Range(HeadChain(Cur)) : b \in Range(operations[o].containing_blocks)
  /\ (Prev(o) # NONE => WalkOnHeadChain(Prev(o), u))

\* C16: in every reachable state the operation of every identifier entry is
\* stored, the walk along previous_operation_rev from it reaches a minting
\* operation of the same uuid, and every operation on the walk is contained
\* in a block of the head chain.
C16_EntriesWalkOnHeadChain ==
  \A u \in UUIDs : identifiers[u] # NONE => WalkOnHeadChain(identifiers[u], u)

(***************************************************************************)
(* AbstractSignedObject.put                                                *)
(***************************************************************************)
\* What put is to do with a block: the first error of verify, put_verify
\* and the check for a stored id, in that order, or the insertion
BlockPutByOrder(b) ==
  IF Block_verify(Cur, b) # NONE THEN Raise(Cur, Block_verify(Cur, b))
  ELSE IF Block_put_verify(Cur, b) # NONE THEN Raise(Cur, Block_put_verify(Cur, b))
  ELSE IF b \in blocks THEN Raise(Cur, "DuplicationError")
  ELSE [Cur EXCEPT !.blocks = blocks \cup {b}]

\* The same for an operation object, stored standing for "the stored-id
\* check refuses the object"
OperationPutByOrder(obj, o, stored) ==
  IF Operation_verify(Cur, o) # NONE THEN Raise(Cur, Operation_verify(Cur, o))
  ELSE IF Operation_put_verify(Cur, o) # NONE THEN Raise(Cur, Operation_put_verify(Cur, o))
  ELSE IF stored THEN Raise(Cur, "DuplicationError")
  ELSE [Cur EXCEPT !.operations[o] = Row(objects[obj])]

\* Re-putting a stored genesis block that verifies raises
\* GenesisBlockDuplication, not DuplicationError
GenesisReputRefused ==
  \A b \in blocks :
    (BlockTable[b].previous_block_rev = ROOT /\ Block_verify(Cur, b) = NONE)
    => Block_super_put(Cur, b) = Raise(Cur, "GenesisBlockDuplication")

RECURSIVE SortedById(_)
SortedById(S) ==
  IF S = {} THEN <<>>
  ELSE LET least == CHOOSE x \in S : \A y \in S : Rank(x) <= Rank(y) IN
       <<least>> \o SortedById(S \ {least})

\* The first loop of BlockChain.__init__, over the ids in the order keys the
\* blocks table yields them in: a record for every persisted block and for
\* every id a persisted block names as its previous block, with no depth
\* yet (-1 here) and next_ids in the order of the scan.
RECURSIVE Scan(_, _)
Scan(m, keys) ==
  IF Len(keys) = 0 THEN m
  ELSE LET revision_id == Head(keys)
           previous_id == BlockTable[revision_id].previous_block_rev
           Linked(m1) ==
             IF m1[revision_id].present
             THEN [m1 EXCEPT ![revision_id].previous_id = previous_id]
             ELSE [m1 EXCEPT ![revision_id] = Record(-1, previous_id, <<>>)]
       IN  Scan(Linked(IF m[previous_id].present
                       THEN [m EXCEPT ![previous_id].next_ids = Append(@, revision_id)]
                       ELSE [m EXCEPT ![previous_id] = Record(-1, NONE, <<revision_id>>)]),
                Tail(keys))

\* The second loop of BlockChain.__init__: the walk from ROOT in the order
\* of the queue; the head moves to a record deeper than the head so far, and
\* the next_ids of the record reached are sorted.
RECURSIVE Bfs(_, _, _)
Bfs(m, queue, hd) ==
  IF Len(queue) = 0 THEN [ map |-> m, head |-> hd ]
  ELSE LET rev == Head(queue)
           depth == m[rev].depth
           deepest == IF hd = NONE THEN -1 ELSE m[hd].depth
           next_ids == SortedById(Range(m[rev].next_ids))
           m1 == [ id \in DOMAIN m |->
                     IF id = rev THEN [m[id] EXCEPT !.next_ids = next_ids]
                     ELSE IF id \in Range(next_ids)
                     THEN [m[id] EXCEPT !.depth = depth + 1] ELSE m[id] ]
       IN  Bfs(m1, Tail(queue) \o next_ids,
               IF depth > deepest THEN rev ELSE hd)

\* BlockChain.__init__, on the tables of s, Block.get_ids_list() yielding
\* the ids in the order keys
BlockChainInitOver(s, keys) ==
  LET ScannedMap(ks) == Scan([id \in Blocks \cup {ROOT} |-> NoRecord], ks)
  IN
  LET Scanned(m0) ==
        IF Len(keys) > 0 /\ ~m0[ROOT].present
        THEN Raise([s EXCEPT !.map = m0, !.head = ROOT], "DoesNotExist")
        ELSE LET Built(built) == [s EXCEPT !.map = built.map, !.head = built.head]
             IN  Built(Bfs([m0 EXCEPT ![ROOT] = Record(0, NONE, m0[ROOT].next_ids)],
                           <<ROOT>>, NONE))
  IN  Scanned(ScannedMap(keys))

\* BlockChain.__init__, on the tables of s
BlockChain_init(s) == BlockChainInitOver(s, SortedById(s.blocks))

\* The process: the module global, the files, and the tables and the tree
\* of the open Database, with the exception the running call has raised
CoreCur ==
  [ database |-> database, files |-> files, store |-> Cur, err |-> NONE ]

\* The tables of the open Database, as its file holds them
Flushed(c) ==
  [ Closed(c.store.blocks, c.store.operations, c.store.identifiers)
      EXCEPT !.open = c.files[c.database].open ]

\* Database(filename), then initialise_blockchain()
OpenDatabase(c, filename) ==
  LET f  == c.files[filename]
      s0 == [c.store EXCEPT !.blocks = f.blocks, !.operations = f.operations,
                            !.identifiers = f.identifiers]
      s1 == BlockChain_init(s0)
  IN  [ database |-> filename,
        files |-> [c.files EXCEPT ![filename] = [NewFile EXCEPT !.open = f.open + 1]],
        store |-> Raise(s1, NONE),
        err |-> s1.err ]

\* initialise_database without the test for an open Database: the Database
\* that was open keeps its handles.
InitialiseOverOpen(c, filename) ==
  IF c.database = NONE THEN OpenDatabase(c, filename)
  ELSE OpenDatabase([c EXCEPT !.files[c.database] = Flushed(c)], filename)

\* core.initialise_database(filename)
initialise_database(c, filename) ==
  IF c.database # NONE THEN [c EXCEPT !.err = "InitialisationError"]
  ELSE OpenDatabase(c, filename)

\* core.close_database()
close_database(c) ==
  LET \* Tables and tree while no Database is open: there are none
      NoStore(s) ==
        [s EXCEPT !.blocks = {}, !.operations = [o \in Ops |-> NoRow],
                  !.identifiers = [u \in UUIDs |-> NONE],
                  !.map = [id \in Blocks \cup {ROOT} |-> NoRecord], !.head = ROOT]
  IN
  IF c.database = NONE THEN [c EXCEPT !.err = "InitialisationError"]
  ELSE [ database |-> NONE,
         files |-> [c.files EXCEPT ![c.database] = [Flushed(c) EXCEPT !.open = @ - 1]],
         store |-> NoStore(c.store),
         err |-> NONE ]

\* core.database_required, around a call that leaves s
database_required(c, s) ==
  IF c.database = NONE THEN [c EXCEPT !.err = "InitialisationError"]
  ELSE [c EXCEPT !.store = Raise(s, NONE), !.err = s.err]

\* The blocks put and removed while databases are opened and closed
CoreBlocks == {"G", "A1"}

CoreLeaves(c) ==
  /\ StoreLeaves(c.store)
  /\ database' = c.database
  /\ files' = c.files

InitialiseDatabase(filename) ==
  \E c \in {initialise_database(CoreCur, filename)} : CoreLeaves(c)

CloseDatabase ==
  \E c \in {close_database(CoreCur)} : CoreLeaves(c)

\* block.put(), whether or not a Database is open
StorePut(b) ==
  \E c \in {database_required(CoreCur, Block_put(Cur, b))} : CoreLeaves(c)

\* block.remove(), whether or not a Database is open
StoreRemove(b, new_head, order) ==
  \E c \in {database_required(CoreCur, Block_remove(Cur, b, new_head, order))} :
    CoreLeaves(c)

CoreNext ==
  \/ \E filename \in Files : InitialiseDatabase(filename)
  \/ CloseDatabase
  \/ \E b \in CoreBlocks : StorePut(b)
  \/ \E b \in CoreBlocks, order \in Orders : \E new_head \in NewHeads(Cur) :
       StoreRemove(b, new_head, order)

\* The process before its first initialise_database()
CoreInit ==
  /\ blocks = {}
  /\ operations = [o \in Ops |-> NoRow]
  /\ identifiers = [u \in UUIDs |-> NONE]
  /\ map = [id \in Blocks \cup {ROOT} |-> NoRecord]
  /\ head = ROOT
  /\ objects = [k \in ObjKeys |-> <<>>]
  /\ shared \in BOOLEAN
  /\ database = NONE
  /\ files = [f \in Files |-> NewFile]
  /\ block = NewBlock(0)
  /\ signed = Operation_init(NONE, "U1", <<>>, <<>>)
  /\ daemon = NewDaemon
  /\ client = NewClient

SpecCore == CoreInit /\ [][CoreNext]_vars

\* The number of Databases open on the files of a set
RECURSIVE OpenCount(_)
OpenCount(F) ==
  IF F = {} THEN 0
  ELSE LET f == CHOOSE x \in F : TRUE IN files[f].open + OpenCount(F \ {f})

\* C18: at most one Database is open at any time; initialise_database with
\* one open raises InitialisationError and leaves it open and in place,
\* close_database with none open raises InitialisationError, after a close
\* initialise_database succeeds, and a call that needs the Database raises
\* InitialisationError while none is open.
C18_OneDatabaseOpen ==
  /\ OpenCount(Files) = (IF database = NONE THEN 0 ELSE 1)
  /\ database # NONE => files[database].open = 1
  /\ \A filename \in Files :
       LET c == initialise_database(CoreCur, filename) IN
       IF database # NONE
       THEN c = [CoreCur EXCEPT !.err = "InitialisationError"]
       ELSE c.err = NONE /\ c.database = filename /\ c.files[filename].open = 1
  /\ LET c == close_database(CoreCur) IN
       IF database = NONE
       THEN c = [CoreCur EXCEPT !.err = "InitialisationError"]
       ELSE /\ c.err = NONE /\ c.database = NONE
            /\ \A filename \in Files :
                 initialise_database(c, filename).err = NONE
  /\ database = NONE =>
       /\ \A b \in CoreBlocks :
            database_required(CoreCur, Block_put(Cur, b))
              = [CoreCur EXCEPT !.err = "InitialisationError"]
       /\ \A b \in CoreBlocks, order \in Orders : \A new_head \in NewHeads(Cur) :
            database_required(CoreCur, Block_remove(Cur, b, new_head, order))
              = [CoreCur EXCEPT !.err = "InitialisationError"]

\* The second file is open after the first was written and closed, so that
\* an initialise_database of either is refused and a close is followed by
\* a reopening of the first with its blocks.
C18_Witness ==
  /\ database = "test_database_file2"
  /\ files["test_database_file"].blocks = {"G", "A1"}
  /\ initialise_database(CoreCur, "test_database_file").err = "InitialisationError"
  /\ initialise_database(close_database(CoreCur), "test_database_file").store.blocks
       = {"G", "A1"}

(***************************************************************************)
(* The blocks table                                                        *)
(***************************************************************************)

Mine ==
  /\ block' = mine(block)
  /\ UNCHANGED <<blocks, operations, identifiers, map, head, objects, shared,
                 database, files, signed, daemon, client>>

\* block.difficulty = difficulty
SetDifficulty(difficulty) ==
  /\ block' = [block EXCEPT !.difficulty = difficulty]
  /\ UNCHANGED <<blocks, operations, identifiers, map, head, objects, shared,
                 database, files, signed, daemon, client>>

\* block.extend_operations(...), or any other change of what is mined
ExtendOperations(content) ==
  /\ block' = [block EXCEPT !.content = content]
  /\ UNCHANGED <<blocks, operations, identifiers, map, head, objects, shared,
                 database, files, signed, daemon, client>>

MineNext ==
  LET \* The difficulties mine() asserts: 0 < difficulty < 256
      Difficulties == 1..(HashBits - 1)
  IN
  \/ Mine
  \/ \E difficulty \in Difficulties : SetDifficulty(difficulty)
  \/ \E content \in Contents : ExtendOperations(content)

\* A new Block object, beside an empty store
MineInit ==
  /\ blocks = {}
  /\ operations = [o \in Ops |-> NoRow]
  /\ identifiers = [u \in UUIDs |-> NONE]
  /\ map = [id \in Blocks \cup {ROOT} |->
              IF id = ROOT THEN Record(0, NONE, <<>>) ELSE NoRecord]
  /\ head = ROOT
  /\ objects = [k \in ObjKeys |-> <<>>]
  /\ shared \in BOOLEAN
  /\ database = "test_database_file"
  /\ files = [f \in Files |->
               IF f = "test_database_file" THEN [NewFile EXCEPT !.open = 1]
               ELSE NewFile]
  /\ block \in { NewBlock(content) : content \in Contents }
  /\ signed = Operation_init(NONE, "U1", <<>>, <<>>)
  /\ daemon = NewDaemon
  /\ client = NewClient

SpecMine == MineInit /\ [][MineNext]_vars

\* C20: Block.verify accepts a block only if its checksum is the hash of
\* its unmined form and that hash is below the target of its difficulty;
\* every stored block is such a block, and so is every block mine() has
\* worked on.
C20_VerifiedAndMinedProveWork ==
  LET \* The checksum of the Block object is the hash of its unmined form and
      \* meets the target of its difficulty
      ProvesWork(blk) == checksum_correct(blk) /\ MeetsTarget(blk)
  IN
  /\ \A b \in Blocks : Block_verify(Cur, b) = NONE => ProvesWork(WorkOf(b))
  /\ \A b \in blocks : ProvesWork(WorkOf(b))
  /\ ProvesWork(mine(block))

SignedLeaves(obj) ==
  /\ signed' = obj
  /\ daemon' = daemon
  /\ client' = client
  /\ UNCHANGED <<blocks, operations, identifiers, map, head, objects, shared,
                 database, files, block>>

\* sign_object(public_key, private_key, operation)
Sign(pub, priv) ==
  LET \* utils.sign_object(public_key, private_key, obj), with the keys of pub and
      \* of priv
      sign_object(obj, public, private) ==
        sign(obj, DER(public), Signature(private, Operation_unsigned_raw(obj)))
  IN
                   SignedLeaves(sign_object(signed, pub, priv))

\* operation.verify_signature()
VerifySignature == SignedLeaves(verify_signature(signed).obj)

\* operation.raw()
Raw == SignedLeaves(raw(signed).obj)

\* operation.hash()
Hash == SignedLeaves(hash(signed).obj)

\* operation = Operation.from_raw(operation.raw()); the name keeps the old
\* object when a call raises
FromRaw ==
  LET Decoded(r) == IF r.err # NONE THEN raw(signed).obj ELSE r.obj
  IN  IF raw(signed).err # NONE THEN SignedLeaves(raw(signed).obj)
      ELSE SignedLeaves(Decoded(Operation_from_raw(Cur, raw(signed).value)))

SignedNext ==
  \/ \E pub \in Keys, priv \in Keys : Sign(pub, priv)
  \/ VerifySignature
  \/ Raw
  \/ Hash
  \/ FromRaw
  \/ BlockPut("G")

\* A new Operation object, not signed, beside an empty store
SignedInit ==
  LET OwnersLists == UNION { [1..n -> { DER(k) : k \in Keys }] : n \in 0..MaxOwners }
  IN
  LET \* The addresses and the lists of owners of the operations encoded
      Addresses ==
        LET \* The code points of the addresses: 'a' and 'e' with an acute accent
            Chars == {97, 233}
        IN
                   UNION { [1..n -> Chars] : n \in 0..MaxAddress }
  IN
  /\ blocks = {}
  /\ operations = [o \in Ops |-> NoRow]
  /\ identifiers = [u \in UUIDs |-> NONE]
  /\ map = [id \in Blocks \cup {ROOT} |->
              IF id = ROOT THEN Record(0, NONE, <<>>) ELSE NoRecord]
  /\ head = ROOT
  /\ objects = [k \in ObjKeys |-> <<>>]
  /\ shared = FALSE
  /\ database = "test_database_file"
  /\ files = [f \in Files |->
               IF f = "test_database_file" THEN [NewFile EXCEPT !.open = 1]
               ELSE NewFile]
  /\ block = NewBlock(0)
  /\ signed \in { Operation_init(previous, uuid, address, owners) :
                    previous \in {NONE, "o1"}, uuid \in UUIDs,
                    address \in Addresses, owners \in OwnersLists }
  /\ daemon = NewDaemon
  /\ client = NewClient

SpecSigned == SignedInit /\ [][SignedNext]_vars

\* C22: for every signed operation that verifies, from_raw(raw()) is an
\* operation with the same previous_operation_rev, uuid, address, owners,
\* signer key and signature and with the same id, and the operations a
\* block carries in its wire form are decoded to the same operations.
C22_FromRawOfRawIsSame ==
  LET operations_from_raw(s, b) ==
        LET Read(r) == IF r.err # NONE THEN Raises(NONE, r.err)
                       ELSE FromRawEach(s, Last(r.out), 1)
        IN  Read(ReadOwners(BytesIO(b)))
  IN
  LET \* len(ops).to_bytes(4, 'big') + b''.join(len(op_raw) + op_raw ...), the
      \* head of Block.raw_with_operations
      operations_full_raw(raws) == to_bytes4(Len(raws)) \o SizedJoin(raws)
  IN
  LET \* The fields two operations are compared by
      Fields(obj) ==
        <<obj.previous_operation_rev, obj.uuid, obj.address, obj.owners,
          obj.public_key, obj.signature>>
  IN
  Object_verify(Cur, signed).err = NONE
  => /\ LET r == Operation_from_raw(Cur, raw(signed).value) IN
        /\ r.err = NONE
        /\ Fields(r.obj) = Fields(signed)
        /\ hash(r.obj).value = DoubleSha(raw(signed).value)
     /\ LET r == operations_from_raw(Cur,
                   operations_full_raw(<<raw(signed).value, raw(signed).value>>)) IN
        /\ r.err = NONE
        /\ Len(r.obj) = 2
        /\ \A i \in 1..2 : Fields(r.obj[i]) = Fields(signed)

\* C23: after any sequence of sign(), verify_signature(), raw() and hash()
\* calls, hash() returns double_sha of the raw() of the public key and
\* signature attached now; raw(), hash() and verify() raise VerifyError
\* "object is not signed" when no signature is attached and "wrong
\* signature" when the one attached does not verify.
C23_IdOfAttachedSignature ==
  LET \* unsigned_raw || sized(public_key.der) || sized(signature)
      SignedLayout(obj) ==
        Operation_unsigned_raw(obj) \o to_bytes4(Len(obj.public_key)) \o obj.public_key
        \o to_bytes4(Len(obj.signature)) \o obj.signature
  IN
  LET \* The signature attached to the object verifies over its unsigned_raw
      SignedNow(obj) ==
        /\ obj.signature # NONE
        /\ KeyVerifies(obj.public_key, obj.signature, Operation_unsigned_raw(obj))
  IN
  /\ signed.signature = NONE
     => \A e \in {raw(signed).err, hash(signed).err, Object_verify(Cur, signed).err} :
          e = "VerifyError: object is not signed"
  /\ (signed.signature # NONE /\ ~SignedNow(signed))
     => \A e \in {raw(signed).err, hash(signed).err, Object_verify(Cur, signed).err} :
          e = "VerifyError: wrong signature"
  /\ SignedNow(signed)
     => /\ raw(signed) = Returns(raw(signed).obj, SignedLayout(signed))
        /\ hash(signed).err = NONE
        /\ hash(signed).value = DoubleSha(SignedLayout(signed))

(***************************************************************************)
(* The operations of a block and the chain the block is put on             *)
(***************************************************************************)

\* C24: Block.put of a new block on a block of the tree fails and leaves the
\* blocks table and the tree as they were when the block holds an operation
\* whose previous_operation_rev is not the last operation of its uuid on the
\* chain from the sentinel to the previous block; it fails with ChainError
\* when nothing else is wrong with the block.
C24_PutOffTheOperationChain ==
  LET \* An operation of b follows, outside b, another operation than the last of
      \* its uuid on the chain b is put on
      FollowsOtherThanLast(st, blk) ==
        LET \* The blocks on the path from the sentinel to the previous block of blk, the
            \* sentinel left out
            ParentChain(sp, child) ==
              Reversed(ButLast(backward_blocks_chain(sp.map, BlockTable[child].previous_block_rev, ROOT)))
        IN
        \E o \in Range(BlockTable[blk].operations_ids) :
          /\ Prev(o) \notin Range(BlockTable[blk].operations_ids)
          /\ Prev(o) # LastOperation(ChainOperations(ParentChain(st, blk)), Uuid(o))
  IN
  \A b \in Blocks :
    (/\ b \notin blocks
     /\ map[BlockTable[b].previous_block_rev].present
     /\ FollowsOtherThanLast(Cur, b))
    => LET s == Block_put(Cur, b) IN
       /\ s.err # NONE
       /\ s.blocks = blocks
       /\ s.map = map
       /\ Block_verify(Cur, b) = NONE => s.err = "ChainError"

(***************************************************************************)
(* update_blocks: when it moves the head, and where                        *)
(***************************************************************************)

\* C25: an update_blocks call puts the blocks in the order of the batch and
\* calls set_head, after the loop, exactly when an inserted block is deeper
\* than max_depth was at the start of the call, with the first inserted
\* block of the greatest depth.
C25_HeadMovedOnceAfterTheLoop ==
  LET \* The places in the batch of the blocks an update_blocks call inserted
      \* before it ended, r being what its loop left
      Inserted(r) == 1..r.put
  IN
  LET \* Whether the call reaches its call of __set_head
      SetHeadInvoked(r) == r.state.err = NONE /\ MovesHead(r.new_max_depth, r.state)
  IN
  LET \* The first inserted block no other inserted block is deeper than
      FirstDeepest(batch, r) ==
        LET deepest == { i \in Inserted(r) :
                           \A j \in Inserted(r) :
                             r.state.map[batch[j]].depth <= r.state.map[batch[i]].depth }
        IN  batch[CHOOSE i \in deepest : \A j \in deepest : i <= j]
  IN
  LET \* The inserted blocks deeper than max_depth was when the call began
      DeeperInserted(s, batch, r) ==
        { i \in Inserted(r) : r.state.map[batch[i]].depth > max_depth(s) }
  IN
  \A batch \in Batches, order \in Orders :
    LET r == UpdateLoop(Cur, batch, 1, max_depth(Cur), head) IN
    /\ r.state = PutEach(Cur, batch, r.put + (IF r.state.err = NONE THEN 0 ELSE 1))
    /\ SetHeadInvoked(r) <=> DeeperInserted(Cur, batch, r) # {}
    /\ SetHeadInvoked(r)
       => update_blocks(Cur, batch, order) = set_head(r.state, FirstDeepest(batch, r), order)
    /\ ~SetHeadInvoked(r) => update_blocks(Cur, batch, order) = r.state

(***************************************************************************)
(* The tree and the operations store in Block.put and Block.remove         *)
(***************************************************************************)

RECURSIVE Enumerations(_)
Enumerations(S) ==
  IF S = {} THEN {<<>>}
  ELSE UNION { { <<x>> \o rest : rest \in Enumerations(S \ {x}) } : x \in S }

\* C28: in whatever order the blocks table yields its ids, the tree
\* BlockChain.__init__ builds from it has, for every stored block and for
\* the sentinel, the record the tree kept by add_block and remove_block has.
C28_RebuiltTreeIsIncrementalTree ==
  \A keys \in Enumerations(blocks) :
    LET s == BlockChainInitOver(Cur, keys) IN
    /\ s.err = NONE
    /\ \A id \in blocks \cup {ROOT} : s.map[id] = map[id]

(***************************************************************************)
(* The head after the store is closed and opened again                     *)
(***************************************************************************)

\* C29: when the head is a deepest record of the tree and the identifiers
\* table is the walk of the head chain, close_database() followed by
\* initialise_database() of the same file leaves the same head, also when
\* several records are as deep as the head, and the identifiers table is
\* still the walk of the head chain.
C29_ReopenedHeadIsHead ==
  LET \* The records of the tree of s that no record is deeper than
      Deepest(s) ==
        { id \in DOMAIN s.map :
            /\ s.map[id].present
            /\ \A other \in DOMAIN s.map :
                 s.map[other].present => s.map[other].depth <= s.map[id].depth }
  IN
  (database # NONE /\ head \in Deepest(Cur) /\ identifiers = WalkTable(Cur))
  => LET Reopened(c) ==
           /\ c.err = NONE
           /\ c.store.head = head
           /\ c.store.identifiers = WalkTable(c.store)
     IN  Reopened(initialise_database(close_database(CoreCur), database))

(***************************************************************************)
(* BlockChain.forward_operations_chain                                     *)
(***************************************************************************)

\* What a call that returns a list of ids leaves: the list, or the exception
\* it raises
Chain(ids) == [ chain |-> ids, err |-> NONE ]

NoChain(e) == [ chain |-> <<>>, err |-> e ]

\* Operation.backward_operations_chain(end_operation_id), of the operation
\* stored under o: the ids from o back to end_operation_id.  The obj of the
\* sentinel revision is None (Operation.verify and __set_head test for it),
\* so that the step back from a minting operation ends in op.id of None,
\* an AttributeError, before the loop can stop at the sentinel.
RECURSIVE backward_operations_chain(_, _, _)
backward_operations_chain(s, o, end_operation_id) ==
  IF ~s.operations[o].stored THEN NoChain("DoesNotExist")
  ELSE IF o = end_operation_id THEN Chain(<<o>>)
  ELSE IF Prev(o) = NONE THEN NoChain("AttributeError")
  ELSE LET Chained(rest) ==
             IF rest.err # NONE THEN rest ELSE Chain(<<o>> \o rest.chain)
       IN  Chained(backward_operations_chain(s, Prev(o), end_operation_id))

\* while idx < len(ops) and b_id in Operation.get(ops[idx]).containing_blocks
RECURSIVE SkipContained(_, _, _, _)
SkipContained(s, ops, idx, b_id) ==
  IF idx < Len(ops) /\ b_id \in Range(s.operations[ops[idx + 1]].containing_blocks)
  THEN SkipContained(s, ops, idx + 1, b_id)
  ELSE idx

\* The loop over the blocks from the head to the LCA: the idx it ends with
RECURSIVE SkipHeadBranch(_, _, _, _, _)
SkipHeadBranch(s, ops, idx, chain, k) ==
  IF k > Len(chain) THEN idx
  ELSE SkipHeadBranch(s, ops, SkipContained(s, ops, idx, chain[k]), chain, k + 1)

\* while op_chain[-1] in op_dict: op_chain.append(op_dict[op_chain[-1]])
RECURSIVE ExtendInBlock(_, _)
ExtendInBlock(b_id, op_chain) ==
  LET \* op_dict of a block: the operation of the block that follows p, the last
      \* of them in the block, or NONE
      OpDict(blk_id, p) ==
        LET at == { i \in 1..Len(BlockTable[blk_id].operations_ids) :
                      Prev(BlockTable[blk_id].operations_ids[i]) = p }
        IN  IF at = {} THEN NONE
            ELSE BlockTable[blk_id].operations_ids[CHOOSE i \in at : \A j \in at : j <= i]
  IN
  IF OpDict(b_id, Last(op_chain)) = NONE THEN op_chain
  ELSE ExtendInBlock(b_id, Append(op_chain, OpDict(b_id, Last(op_chain))))

\* The loop over root_chain[:root_chain.index(lca_id)], from its k-th block
\* on
RECURSIVE ForwardLoop(_, _, _, _, _)
ForwardLoop(s, o, chain, k, op_chain) ==
  IF k > Len(chain) THEN Chain(op_chain)
  ELSE IF chain[k] \notin s.blocks THEN NoChain("DoesNotExist")
  ELSE LET Started(c) ==
             ForwardLoop(s, o, chain, k + 1,
                         IF Len(c) > 0 THEN ExtendInBlock(chain[k], c) ELSE c)
       IN  Started(IF Len(op_chain) = 0 /\ o \in Range(BlockTable[chain[k]].operations_ids)
                   THEN <<o>> ELSE op_chain)

\* BlockChain.forward_operations_chain(OperationRev.from_id(o), block_id)
forward_operations_chain(s, o, block_id) ==
  LET \* list.index(x)
      Index(seq, x) ==
        CHOOSE i \in 1..Len(seq) : seq[i] = x /\ \A j \in 1..(i - 1) : seq[j] # x
  IN
  IF ~s.map[block_id].present \/ ~s.operations[o].stored THEN NoChain("DoesNotExist")
  ELSE
    LET root_chain == backward_blocks_chain(s.map, block_id, ROOT)
        containing == SelectSeq(s.operations[o].containing_blocks,
                                LAMBDA b_id : b_id \in Range(root_chain))
        lca_id == lowest_common_ancestor(s.map, s.head, block_id)
        After(op_chain) ==
          ForwardLoop(s, o, SubSeq(root_chain, 1, Index(root_chain, lca_id) - 1),
                      1, op_chain)
        Kept(ops) ==
          IF ops.err # NONE THEN ops
          ELSE After(Reversed(SubSeq(ops.chain,
                 SkipHeadBranch(s, ops.chain, 0,
                                ButLast(backward_blocks_chain(s.map, s.head, lca_id)), 1) + 1,
                 Len(ops.chain))))
    IN  IF Len(containing) = 0 THEN NoChain("TreeError")
        ELSE IF lca_id = NONE THEN NoChain("DoesNotExist")
        ELSE IF Index(root_chain, containing[1]) >= Index(root_chain, lca_id)
             THEN IF s.identifiers[Uuid(o)] = NONE THEN NoChain("DoesNotExist")
                  ELSE Kept(backward_operations_chain(s, s.identifiers[Uuid(o)], o))
        ELSE After(<<>>)

\* C30: for a stored operation o of a block on the path from the sentinel to
\* a block B of the tree, forward_operations_chain(o, B) returns a list that
\* begins with o, each later element following the one before it and being
\* an operation of a block on the path, and that ends with the last
\* operation of o's uuid on the path, the entry of the identifiers table
\* when B is the head; for a stored operation of no block on the path it
\* raises TreeError.
C30_ForwardChainReachesLatest ==
  LET \* The blocks on the path from the sentinel to block_id, the sentinel left out
      PathTo(s, block_id) == Reversed(ButLast(backward_blocks_chain(s.map, block_id, ROOT)))
  IN
  LET \* o is an operation of a block on the path from the sentinel to block_id
      OnPath(s, o, block_id) ==
        \E b \in Range(PathTo(s, block_id)) : o \in Range(BlockTable[b].operations_ids)
  IN
  \A o \in Ops, block_id \in Blocks :
    (operations[o].stored /\ map[block_id].present)
    => LET Checked(r) ==
             IF OnPath(Cur, o, block_id)
             THEN /\ r.err = NONE
                  /\ Len(r.chain) > 0
                  /\ r.chain[1] = o
                  /\ \A i \in 2..Len(r.chain) :
                       /\ Prev(r.chain[i]) = r.chain[i - 1]
                       /\ OnPath(Cur, r.chain[i], block_id)
                  /\ Last(r.chain)
                       = LastOperation(ChainOperations(PathTo(Cur, block_id)), Uuid(o))
                  /\ block_id = head => Last(r.chain) = identifiers[Uuid(o)]
             ELSE r.err = "TreeError"
       IN  Checked(forward_operations_chain(Cur, o, block_id))

(***************************************************************************)
(* C27: the shape of the tree                                              *)
(***************************************************************************)

\* the map m is a tree rooted at the sentinel
WellFormed(m) ==
  LET \* next_ids in ascending order of the ids, none twice
      Ascending(seq) ==
        \A i, j \in 1..Len(seq) : i < j => Rank(seq[i]) < Rank(seq[j])
  IN
  /\ m[ROOT].present /\ m[ROOT].depth = 0
  /\ \A id \in Blocks :
       m[id].present =>
         /\ m[id].previous_id \in DOMAIN m
         /\ m[m[id].previous_id].present
         /\ m[id].depth = m[m[id].previous_id].depth + 1
  /\ \A p \in DOMAIN m, id \in Blocks :
       m[p].present =>
         (id \in Range(m[p].next_ids) <=> (m[id].present /\ m[id].previous_id = p))
  /\ \A p \in DOMAIN m : m[p].present => Ascending(m[p].next_ids)

\* C27: in every reachable state the map is a tree rooted at the sentinel
\* (the root at depth 0, every other record one deeper than its parent,
\* which is in the map; a block is among the next_ids of a record exactly
\* when that record is its parent; next_ids ascending without duplicates),
\* and add_block of an id in the map or of a parent not in the map raises
\* and leaves the map as it was.
C27_TreeWellFormed ==
  LET \* add_block refused: the id is in the map, or the parent is not
      Refused(b) ==
        map[b].present \/ ~map[BlockTable[b].previous_block_rev].present
  IN
  /\ WellFormed(map)
  /\ \A b \in Blocks :
       Refused(b) =>
         /\ add_block(Cur, b).err # NONE
         /\ add_block(Cur, b).map = map

\* two children of one record, put in descending order of their ids, and
\* both refusals of add_block at hand
C27_Witness ==
  /\ WellFormed(map)
  /\ \E p \in DOMAIN map : map[p].present /\ Len(map[p].next_ids) = 2
  /\ \E b \in Blocks : map[b].present /\ ~(b \in blocks)
  /\ \E b \in Blocks : ~map[BlockTable[b].previous_block_rev].present
  /\ \E b \in Blocks : map[b].present /\ map[b].depth = 3

(***************************************************************************)
(* C31: the lowest common ancestor                                         *)
(***************************************************************************)
\* The ids on the parent path of id in the map m, id itself among them
RECURSIVE AncestorsOrSelf(_, _)
AncestorsOrSelf(m, id) ==
  IF id = NONE \/ ~m[id].present THEN {}
  ELSE {id} \cup AncestorsOrSelf(m, m[id].previous_id)

\* The ids the map holds
InTree == { id \in DOMAIN map : map[id].present }

\* C31: for any two ids a, b of the tree lowest_common_ancestor(a, b) is an
\* ancestor-or-self of both, of the greatest depth among the ids that are;
\* it is the same for (b, a); it is a for (a, a) and the sentinel for
\* (a, sentinel).
C31_LowestCommonAncestor ==
  \A a, b \in InTree :
    LET Common == AncestorsOrSelf(map, a) \cap AncestorsOrSelf(map, b)
        Lowest(l) ==
          /\ l \in Common
          /\ \A c \in Common : map[c].depth <= map[l].depth
          /\ l = lowest_common_ancestor(map, b, a)
    IN  /\ Lowest(lowest_common_ancestor(map, a, b))
        /\ lowest_common_ancestor(map, a, a) = a
        /\ lowest_common_ancestor(map, a, ROOT) = ROOT

\* two blocks of different depths on two branches that part below a block
C31_Witness ==
  \E a, b \in InTree :
    /\ map[a].depth > map[b].depth
    /\ lowest_common_ancestor(map, a, b) \notin {a, b, ROOT}

(***************************************************************************)
(* C32: the path from a block up to an ancestor                            *)
(***************************************************************************)
\* the walk of backward_blocks_chain returned as it stops, the test of the
\* id it stopped at left out
BackwardBlocksChainUnchecked(m, block_id, end_block_id) ==
  LET RECURSIVE Walk(_, _)
      Walk(id, chain) ==
        IF id # ROOT /\ id # end_block_id
        THEN IF ~m[id].present THEN NoChain("DoesNotExist")
             ELSE Walk(m[id].previous_id, Append(chain, m[id].previous_id))
        ELSE Chain(chain)
  IN  Walk(block_id, <<block_id>>)

\* BlockChain.backward_blocks_chain with what it raises: DoesNotExist of
\* self.get(block_id), TreeError when the walk stopped at another id than
\* end_block_id
BackwardBlocksChain(m, block_id, end_block_id) ==
  LET RECURSIVE Walk(_, _)
      Walk(id, chain) ==
        IF id # ROOT /\ id # end_block_id
        THEN IF ~m[id].present THEN NoChain("DoesNotExist")
             ELSE Walk(m[id].previous_id, Append(chain, m[id].previous_id))
        ELSE IF id # end_block_id THEN NoChain("TreeError")
        ELSE Chain(chain)
  IN  Walk(block_id, <<block_id>>)

C33_BackwardOperationsChain ==
  LET \* The ids from o back along previous_operation_rev, the sentinel last
      RECURSIVE WalkBack(_)
      WalkBack(o) == IF o = NONE THEN <<NONE>> ELSE <<o>> \o WalkBack(Prev(o))
  IN
  \A o \in Ops, end \in Ops \cup {NONE} :
    LET UpTo(walk) ==
          SubSeq(walk, 1, CHOOSE i \in 1..Len(walk) : walk[i] = end)
        Settled(r) ==
          IF end \in Range(WalkBack(o))
          THEN r = Chain(UpTo(WalkBack(o)))
          ELSE r = NoChain("ChainError")
    IN  operations[o].stored => Settled(backward_operations_chain(Cur, o, end))

(***************************************************************************)
(* C34: Operation.put(block_rev)                                           *)
(***************************************************************************)
\* C34: Operation.put(block_rev) raises when the block is not stored or
\* does not list the operation; whenever it raises, the containing_blocks
\* of the object and the row of the operation are as before the call; when
\* it returns, the id of the block is in containing_blocks exactly once,
\* also when the object holds it already.
C34_OperationPutAllOrNothing ==
  \A obj \in ObjKeys, b \in Blocks :
    LET o == obj[2]
        Times(seq) == Cardinality({ i \in 1..Len(seq) : seq[i] = b })
        Settled(s) ==
          /\ (b \notin blocks \/ o \notin Range(BlockTable[b].operations_ids))
               => s.err # NONE
          /\ s.err # NONE =>
               /\ s.objects[obj] = objects[obj]
               /\ s.operations[o] = operations[o]
          /\ s.err = NONE =>
               /\ Times(s.objects[obj]) = 1
               /\ Times(s.operations[o].containing_blocks) = 1
    IN  Settled(Operation_put(Cur, obj, o, b))

(***************************************************************************)
(* C35: a Block.put that raises                                            *)
(***************************************************************************)
\* C35: when Block.put raises, whatever it raises and also when it raises
\* while it puts an operation after the row of the block was written, the
\* blocks table, the operations table, the records of the tree and the
\* head are as they were before the call.
C35_FailedPutChangesNothing ==
  \A b \in Blocks :
    LET Untouched(s) ==
          /\ s.blocks = blocks
          /\ s.operations = operations
          /\ s.map = map
          /\ s.head = head
    IN  Block_put(Cur, b).err # NONE => Untouched(Block_put(Cur, b))

(***************************************************************************)
(* C36: remove of what is not stored                                       *)
(***************************************************************************)
\* C36: Block.remove of a block that is not in the blocks table, one that
\* was removed before among them, and Operation.remove of an operation that
\* is not in the operations table raise DoesNotExist and change nothing.
C36_RemoveOfMissingId ==
  LET Refused(s) == s = Raise(Cur, "DoesNotExist")
  IN  /\ \A b \in Blocks, order \in Orders, new_head \in NewHeads(Cur) :
           b \notin blocks => Refused(Block_remove(Cur, b, new_head, order))
      /\ \A obj \in ObjKeys, b \in Blocks :
           ~operations[obj[2]].stored => Refused(Operation_remove(Cur, obj, obj[2], b))

(***************************************************************************)
(* The daemon, demo/pmpi-d.py: the handlers of EchoServerClientProtocol as *)
(* operators from the daemon's state to the state they leave behind.       *)
(***************************************************************************)
\* connection_made(self, transport)
connection_made(d, c) == [d EXCEPT !.protocols[c].transport = "open"]

\* data_received(self, data): the first message of a connection is its key;
\* every later one is written to the transport of each protocol in clients
data_received(d, c, data) ==
  LET InClients == { d.clients[k] : k \in { k \in Data : d.clients[k] # NONE } }
      \* transport.write(data); a closed transport drops what it is given
      write(p) == IF d.protocols[p].transport = "open"
                  THEN [d.protocols[p] EXCEPT !.written = Append(@, data)]
                  ELSE d.protocols[p]
  IN  IF d.protocols[c].key = NONE
      THEN [d EXCEPT !.protocols[c].key = data, !.clients[data] = c]
      \* data[:2].decode() raises UnicodeDecodeError before anything is written
      ELSE IF data = "ff" THEN d
      ELSE [d EXCEPT !.protocols =
                       [p \in Conns |-> IF p \in InClients THEN write(p) ELSE @[p]]]

\* connection_lost(self, exc)
connection_lost(d, c) ==
  LET key == d.protocols[c].key
      Lost == [d EXCEPT !.protocols[c].transport = "closed"]
  IN  IF key # NONE /\ d.clients[key] # NONE
      THEN [Lost EXCEPT !.clients[key] = NONE]
      ELSE Lost

\* The longest sequence of messages the daemon writes to one connection
MaxWritten == 2

\* The event loop of the daemon: any connection is made, sends or is lost
DaemonNext ==
  LET \* The daemon's state after a handler, beside a store nobody touches
      DaemonLeaves(d) ==
        /\ daemon' = d
        /\ UNCHANGED <<blocks, operations, identifiers, map, head, objects, shared,
                       database, files, block, signed, client>>
  IN
  LET Open(c) == daemon.protocols[c].transport = "open"
  IN
  \/ \E c \in Conns :
       /\ daemon.protocols[c].transport = NONE
       /\ DaemonLeaves(connection_made(daemon, c))
  \/ \E c \in Conns, data \in Data :
       /\ Open(c)
       /\ data \in (IF daemon.protocols[c].key = NONE THEN ClientKeys ELSE Messages)
       /\ \A p \in Conns : Len(daemon.protocols[p].written) < MaxWritten
       /\ DaemonLeaves(data_received(daemon, c, data))
  \/ \E c \in Conns :
       /\ Open(c)
       /\ DaemonLeaves(connection_lost(daemon, c))

SpecDaemon == Init /\ [][DaemonNext]_vars

\* C37: every message a connected client sends after its key is written
\* unchanged, exactly once, to every connected client that has sent its key,
\* the sender among them, and to no other; so a client that has sent its key
\* receives every broadcast until its own connection is lost.
C37_BroadcastToEveryRegistered ==
  LET Open(d, c) == d.protocols[c].transport = "open"
      Registered(d, c) == Open(d, c) /\ d.protocols[c].key # NONE
      After(d, c, data) ==
        \A p \in Conns :
          data_received(d, c, data).protocols[p].written =
            IF Registered(d, p)
            THEN Append(d.protocols[p].written, data)
            ELSE d.protocols[p].written
  IN  \A c \in Conns, data \in Data :
        Registered(daemon, c) => After(daemon, c, data)

(***************************************************************************)
(* The client, demo/pmpi-cli.py.  Its event loop keeps the handles that    *)
(* call_soon has scheduled in a queue, ready, and runs them in turns: a    *)
(* turn first appends the handle of what the socket has received, then     *)
(* runs the ntodo handles that are in ready at that moment.  A handle is a *)
(* record [kind, op, call, block]: the first step of the task of an        *)
(* operation_queue.put or .get, a done-callback, or a data_received.       *)
(***************************************************************************)
MIN_OPS_IN_BLOCK == 2

\* What the handle h does when it is new_block, the done-callback of the put
\* of process_operation, or get_from_queue_cb, the done-callback of the get
\* that the call h.call of new_block has scheduled
new_block(c, h) ==
  LET \* the call this is: the first one not yet made
      New == CHOOSE n \in Calls :
               c.state[n] = NONE /\ \A m \in 1..(n - 1) : c.state[m] # NONE
      Handle(kind, op, n) ==
        [kind |-> kind, op |-> op, call |-> n, block |-> {}]
      mint_block(cl, n) ==
        IF Len(cl.ops[n]) >= MIN_OPS_IN_BLOCK
        THEN \* the block is mined, signed, verified and written
             [cl EXCEPT !.written = Append(@, cl.ops[n]),
                        !.state[n] = "minted"]
        ELSE \* for op in ops: asyncio.ensure_future(operation_queue.put(op))
             [cl EXCEPT !.ready = @ \o [i \in 1..Len(cl.ops[n]) |->
                                          Handle("put_back", cl.ops[n][i], 0)],
                        !.state[n] = "put_back"]
      \* defined: whether def mint_block has been executed; the call of
      \* clean_queue in line 156 comes before it and raises NameError when
      \* the queue is empty
      clean_queue(cl, n, defined) ==
        IF cl.queue # <<>>
        THEN [cl EXCEPT !.ready = Append(@, Handle("get", NONE, n))]
        ELSE IF defined THEN mint_block(cl, n)
        ELSE [cl EXCEPT !.state[n] = "raised"]
      \* Operation.get(op.id) raises DoesNotExist for an operation that is
      \* not stored; clean_queue() is called in the except branch only
      get_from_queue_cb(cl, op, n) ==
        IF op \in cl.stored THEN cl
        ELSE clean_queue([cl EXCEPT !.ops[n] = Append(@, op)], n, TRUE)
  IN  IF h.kind = "new_block"
      THEN clean_queue([c EXCEPT !.state[New] = "draining"], New, FALSE)
      ELSE get_from_queue_cb(c, h.op, h.call)

\* data_received(self, data) of ClientProtocol, for the message in h
ClientProtocol_data_received(c, h) ==
  LET \* op = Operation.from_raw(raw_operation); the task of the put, with
      \* new_block as its done-callback
      process_operation(op) ==
        [c EXCEPT !.ready = Append(@, [h EXCEPT !.kind = "put"])]
      \* update_blocks() on the block received: its operations are stored
      process_block(blk) == [c EXCEPT !.stored = @ \cup blk]
  IN  IF h.op # NONE THEN process_operation(h.op) ELSE process_block(h.block)

\* What running the handle h does to the client c
Handle_run(c, h) ==
  LET call_soon(cl, kind, op, n) ==
        [cl EXCEPT !.ready =
                     Append(@, [kind |-> kind, op |-> op, call |-> n, block |-> {}])]
      \* asyncio.Queue.put on a queue without maxsize: the item is added and
      \* the first task waiting in get is woken
      put(op) ==
        LET Put == [c EXCEPT !.queue = Append(@, op)]
        IN  IF c.getters = <<>> THEN Put
            ELSE call_soon([Put EXCEPT !.getters = Tail(@)],
                           "get", NONE, Head(c.getters))
      \* asyncio.Queue.get: waits while the queue is empty
      get(n) ==
        IF c.queue = <<>> THEN [c EXCEPT !.getters = Append(@, n)]
        ELSE call_soon([c EXCEPT !.queue = Tail(@)],
                       "get_from_queue_cb", Head(c.queue), n)
  IN  CASE h.kind = "data_received" -> ClientProtocol_data_received(c, h)
        [] h.kind = "put" ->
             [call_soon(put(h.op), "new_block", NONE, 0) EXCEPT !.last = h.op]
        [] h.kind = "put_back" -> put(h.op)
        [] h.kind = "get" -> get(h.call)
        [] OTHER -> new_block(c, h)

\* The client's state after a step of its loop, beside a store and a daemon
\* that are not modelled with it
ClientLeaves(c) ==
  /\ client' = c
  /\ UNCHANGED <<blocks, operations, identifiers, map, head, objects, shared,
                 database, files, block, signed, daemon>>

\* The start of a turn of the loop: the socket has received the operation
\* op, or the block blk of operations the daemon has sent before, or nothing
run_once(op, blk) ==
  LET Received == IF op = NONE /\ blk = {} THEN <<>>
                  ELSE << [kind |-> "data_received", op |-> op, call |-> 0,
                           block |-> blk] >>
      Ready == client.ready \o Received
  IN  /\ client.ntodo = 0
      /\ Ready # <<>>
      /\ op # NONE => op \notin client.received /\ blk = {}
      /\ blk # {} => /\ blk \subseteq client.received
                     /\ ~(blk \subseteq client.stored)
                     /\ Cardinality(blk) >= MIN_OPS_IN_BLOCK
      /\ ClientLeaves([client EXCEPT !.ready = Ready, !.ntodo = Len(Ready),
                                     !.received = @ \cup ({op} \ {NONE})])

\* The loop runs the next handle of the turn
run_handle ==
  /\ client.ntodo > 0
  /\ ClientLeaves(Handle_run([client EXCEPT !.ready = Tail(@), !.ntodo = @ - 1,
                                            !.last = NONE],
                             Head(client.ready)))

ClientNext ==
  \/ \E op \in ClientOps \cup {NONE}, blk \in SUBSET ClientOps : run_once(op, blk)
  \/ run_handle

\* The client decodes the operations of every block it receives
\* (from_raw_with_operations in process_block)
ClientInit == Init /\ ~shared

\* The loop never stops running the handles that are ready; what the network
\* sends, and when, is left open
SpecClient ==
  /\ ClientInit /\ [][ClientNext]_vars
  /\ WF_vars(run_handle) /\ WF_vars(run_once(NONE, {}))

\* C38: whenever the put of an operation received has left at least
\* MIN_OPS_IN_BLOCK operations that are not stored in operation_queue, each of
\* them is eventually in a block the client has mined and written, unless it
\* was stored in the meantime; every call of new_block that has started to
\* take operations from the queue eventually mints or puts back what it took;
\* and at any time every operation received is stored, in the queue, on its
\* way to the queue, in a block written, or in the hands of a call of
\* new_block that still has a task or a callback to run.
C38_PendingOperationsAreMined ==
  LET Pending == { op \in Range(client.queue) : op \notin client.stored }
      Sent(op) == \E i \in DOMAIN client.written : op \in Range(client.written[i])
      Enough == /\ client.last # NONE
                /\ Cardinality(Pending) >= MIN_OPS_IN_BLOCK
      Running(n) == \/ n \in Range(client.getters)
                    \/ \E i \in DOMAIN client.ready : client.ready[i].call = n
      Kept(op) == \/ op \in client.stored
                  \/ op \in Range(client.queue)
                  \/ \E i \in DOMAIN client.ready : client.ready[i].op = op
                  \/ Sent(op)
                  \/ \E n \in Calls : /\ client.state[n] = "draining"
                                      /\ Running(n)
                                      /\ op \in Range(client.ops[n])
  IN  /\ \A op \in ClientOps :
           (Enough /\ op \in Pending) ~> (Sent(op) \/ op \in client.stored)
      /\ \A n \in Calls :
           (client.state[n] = "draining")
             ~> (client.state[n] \in {"minted", "put_back", "raised"})
      /\ [](\A op \in client.received : Kept(op))

=============================================================================
